---- MODULE Spec2Model ----
(***************************************************************************)
(* Model of the track-compatibility and transition-point engine of the     *)
(* DJ assistant: TrackComparator (src/src/lib/audio/comparison.ts),        *)
(* TransitionOptimizer (src/src/lib/audio/analyzer.ts) and the route       *)
(* POST /api/playlists/generate (src/unnamed/part_005).                    *)
(*                                                                         *)
(* Numbers.  A JavaScript number is modelled as an exact fraction          *)
(* [n |-> numerator, d |-> denominator] in lowest terms with d > 0, and    *)
(* the three non-finite doubles as d = 0: n = 1 is +Infinity, n = -1 is    *)
(* -Infinity and n = 0 is NaN.  Division by zero, comparisons with NaN     *)
(* and Math.min / Math.max / Math.round therefore behave as in the         *)
(* source.  Rounding error of binary doubles and the sign of zero are not  *)
(* modelled.                                                               *)
(*                                                                         *)
(* Optional fields.  A field that may be null or undefined is a sequence   *)
(* of length 0 (absent) or 1 (present); Coalesce is the ?? operator.       *)
(*                                                                         *)
(* Times are whole seconds, so that cos(2*pi*(f-t)/4) is exactly 1, 0 or   *)
(* -1.                                                                     *)
(***************************************************************************)
EXTENDS Integers, Sequences, FiniteSets, TLC

VARIABLES track1, track2, candidateTracks, limit, called, score, analysis, found,
          instructions, library, request, response, playlists,
          isProcessing, uploadProgress, error, dragActive, dialogOpen, runs, uploaded

\* the arguments and results of the engine's methods
engineVars == <<track1, track2, candidateTracks, limit, called, score, analysis, found,
                instructions>>

\* the track table, the request body, the response and the playlist table of
\* the playlist route
routeVars == <<library, request, response, playlists>>

\* the TrackUploader component: its four pieces of React state, the file
\* dialog of its hidden input, the position of every processFile run started
\* so far, and the runs handed to onTrackUploaded
uploaderVars == <<isProcessing, uploadProgress, error, dragActive, dialogOpen, runs,
                  uploaded>>

vars == <<track1, track2, candidateTracks, limit, called, score, analysis, found,
          instructions, library, request, response, playlists,
          isProcessing, uploadProgress, error, dragActive, dialogOpen, runs, uploaded>>

(***************************************************************************)
(* Number arithmetic                                                       *)
(***************************************************************************)
IAbs(i) == IF i < 0 THEN -i ELSE i

Sign(i) == IF i > 0 THEN 1 ELSE IF i < 0 THEN -1 ELSE 0

RECURSIVE GCD(_, _)
GCD(a, b) == IF b = 0 THEN a ELSE GCD(b, a % b)

\* the number n/d ; d = 0 gives +Infinity, -Infinity or NaN by the sign of n
Num(n, d) ==
  IF d = 0 THEN [n |-> Sign(n), d |-> 0]
  ELSE LET s == IF d < 0 THEN -1 ELSE 1
           g == GCD(IAbs(n), IAbs(d))
       IN  [n |-> (s * n) \div g, d |-> (s * d) \div g]

I(i) == [n |-> i, d |-> 1]

NaN == [n |-> 0, d |-> 0]

IsNaN(x) == x.d = 0 /\ x.n = 0

Neg(x) == [n |-> -x.n, d |-> x.d]

Add(x, y) ==
  IF x.d = 0 /\ y.d = 0
  THEN (IF x.n = y.n THEN x ELSE NaN)
  ELSE Num(x.n * y.d + y.n * x.d, x.d * y.d)

Sub(x, y) == Add(x, Neg(y))

Mul(x, y) == Num(x.n * y.n, x.d * y.d)

\* x / y as the double division: 1/0 is Infinity, 0/0 is NaN
Div(x, y) ==
  IF IsNaN(y) THEN NaN
  ELSE IF y.n = 0 THEN Num(x.n, 0)
  ELSE IF y.d = 0 THEN (IF x.d = 0 THEN NaN ELSE I(0))
  ELSE Mul(x, Num(y.d, y.n))

\* x < y ; false when either side is NaN
Lt(x, y) ==
  /\ ~IsNaN(x)
  /\ ~IsNaN(y)
  /\ IF x.d = 0 /\ y.d = 0 THEN x.n < y.n
     ELSE IF x.d = 0 THEN x.n < 0
     ELSE IF y.d = 0 THEN y.n > 0
     ELSE x.n * y.d < y.n * x.d

Gt(x, y) == Lt(y, x)

\* x <= y ; false when either side is NaN
Le(x, y) == ~IsNaN(x) /\ ~IsNaN(y) /\ ~Lt(y, x)

Ge(x, y) == Le(y, x)

\* x === y ; NaN is not equal to itself
StrictEq(x, y) == ~IsNaN(x) /\ ~IsNaN(y) /\ x = y

MathAbs(x) == [n |-> IAbs(x.n), d |-> x.d]

MathMin(x, y) == IF IsNaN(x) \/ IsNaN(y) THEN NaN ELSE IF Lt(y, x) THEN y ELSE x

MathMax(x, y) == IF IsNaN(x) \/ IsNaN(y) THEN NaN ELSE IF Lt(x, y) THEN y ELSE x

\* Math.round: floor(x + 1/2) for a finite x, x itself otherwise
MathRound(x) == IF x.d = 0 THEN x ELSE I((2 * x.n + x.d) \div (2 * x.d))

\* Math.floor of a finite x, x itself otherwise
MathFloor(x) == IF x.d = 0 THEN x ELSE I(x.n \div x.d)

\* x % y as the double remainder: the sign of x, NaN for a non-finite x or y = 0
Remainder(x, y) ==
  IF x.d = 0 \/ IsNaN(y) \/ y.n = 0 THEN NaN
  ELSE IF y.d = 0 THEN x
  ELSE LET quotient == Div(MathAbs(x), MathAbs(y))
           magnitude == Sub(MathAbs(x), Mul(MathAbs(y), MathFloor(quotient)))
       IN  IF x.n < 0 THEN Neg(magnitude) ELSE magnitude

\* |cos(2*pi*x/4)| for a whole number of seconds x
AbsCosQuarterTurn(x) ==
  IF x.d = 0 THEN NaN ELSE IF x.n % 2 = 0 THEN I(1) ELSE I(0)

InUnit(x) == Le(I(0), x) /\ Le(x, I(1))

\* the ?? operator on an optional value
Coalesce(opt, default) == IF Len(opt) = 0 THEN default ELSE opt[1]

Absent == << >>

NoResult == << >>

(***************************************************************************)
(* TrackComparator                                                         *)
(***************************************************************************)
IMin(a, b) == IF a < b THEN a ELSE b

\* the position of a key in a table written as the sequence of its keys in
\* position order (position = index - 1), or -1 when the table has no such key
RECURSIVE TableLookup(_, _, _)
TableLookup(table, key, i) ==
  IF i > Len(table) THEN -1
  ELSE IF table[i] = key THEN i - 1
  ELSE TableLookup(table, key, i + 1)

\* the property names every object literal inherits from Object.prototype;
\* table[name] is then a function or an object, not undefined
ObjectPrototypeKeys ==
  { "constructor", "__proto__", "hasOwnProperty", "isPrototypeOf",
    "propertyIsEnumerable", "toLocaleString", "toString", "valueOf",
    "__defineGetter__", "__defineSetter__", "__lookupGetter__", "__lookupSetter__" }

\* table[key] ?? 0 as the subtraction reads it: the position of an own key,
\* NaN for an inherited property (not nullish, and not a number), 0 otherwise
TablePosition(table, key) ==
  LET at == TableLookup(table, key, 1)
  IN  IF at >= 0 THEN I(at)
      ELSE IF key \in ObjectPrototypeKeys THEN NaN
      ELSE I(0)

circleOfFifths ==
  << "C", "G", "D", "A", "E", "B", "F#", "C#", "G#", "D#", "A#", "F",
     "Cm", "Gm", "Dm", "Am", "Em", "Bm", "F#m", "C#m", "G#m", "D#m", "A#m", "Fm" >>

calculateTempoCompatibility(bpm1, bpm2) ==
  LET difference == MathAbs(Sub(bpm1, bpm2))
  IN  IF StrictEq(difference, I(0)) THEN I(1)
      ELSE IF Le(difference, I(5)) THEN Num(4, 5)
      ELSE IF Le(difference, I(10)) THEN Num(3, 5)
      ELSE IF Le(difference, I(20)) THEN Num(2, 5)
      ELSE Num(1, 5)

\* the key score with the plain difference of positions as distance
calculateKeyCompatibilityNoWrap(key1, key2) ==
  LET at1 == TableLookup(circleOfFifths, key1, 1)
      at2 == TableLookup(circleOfFifths, key2, 1)
      pos1 == IF at1 < 0 THEN 0 ELSE at1
      pos2 == IF at2 < 0 THEN 0 ELSE at2
      distance == IAbs(pos1 - pos2)
  IN  IF distance = 0 THEN I(1)
      ELSE IF distance <= 1 THEN Num(4, 5)
      ELSE IF distance <= 2 THEN Num(3, 5)
      ELSE IF distance <= 3 THEN Num(2, 5)
      ELSE Num(1, 5)

calculateKeyCompatibility(key1, key2) ==
  LET pos1 == TablePosition(circleOfFifths, key1)
      pos2 == TablePosition(circleOfFifths, key2)
      distance == MathMin(MathAbs(Sub(pos1, pos2)),
                          MathMin(MathAbs(Add(Sub(pos1, pos2), I(12))),
                                  MathAbs(Sub(Sub(pos1, pos2), I(12)))))
  IN  IF StrictEq(distance, I(0)) THEN I(1)
      ELSE IF Le(distance, I(1)) THEN Num(4, 5)
      ELSE IF Le(distance, I(2)) THEN Num(3, 5)
      ELSE IF Le(distance, I(3)) THEN Num(2, 5)
      ELSE Num(1, 5)

calculateEnergyCompatibility(energy1, energy2) ==
  LET difference == MathAbs(Sub(energy1, energy2))
  IN  MathMax(I(0), Sub(I(1), Mul(difference, I(2))))

\* the spectral score normalised by the first centroid only
calculateSpectralCompatibilityByFirst(spectral1, spectral2) ==
  LET difference == MathAbs(Sub(spectral1, spectral2))
      normalized == Div(difference, MathMax(spectral1, I(1)))
  IN  MathMax(I(0), Sub(I(1), normalized))

calculateSpectralCompatibility(spectral1, spectral2) ==
  LET difference == MathAbs(Sub(spectral1, spectral2))
      normalized == Div(difference, MathMax(MathMax(spectral1, spectral2), I(1)))
  IN  MathMax(I(0), Sub(I(1), normalized))

\* the tempo ratio taken in argument order
calculateRhythmCompatibilityOrdered(t1, t2) ==
  LET tempo1 == Coalesce(t1.tempo, I(120))
      tempo2 == Coalesce(t2.tempo, I(120))
  IN  Div(tempo1, tempo2)

calculateRhythmCompatibility(t1, t2) ==
  LET tempo1 == Coalesce(t1.tempo, I(120))
      tempo2 == Coalesce(t2.tempo, I(120))
  IN  Div(MathMin(tempo1, tempo2), MathMax(tempo1, tempo2))

\* weights that count every factor alike
weightsEqual ==
  [tempo |-> Num(1, 5), key |-> Num(1, 5), energy |-> Num(1, 5),
   spectral |-> Num(1, 5), rhythm |-> Num(1, 5)]

weights ==
  [tempo |-> Num(3, 10), key |-> Num(1, 4), energy |-> Num(1, 5),
   spectral |-> Num(3, 20), rhythm |-> Num(1, 10)]

calculateCompatibility(t1, t2) ==
  LET tempo == calculateTempoCompatibility(Coalesce(t1.tempo, I(120)),
                                           Coalesce(t2.tempo, I(120)))
      key == calculateKeyCompatibility(Coalesce(t1.musicalKey, "C"),
                                       Coalesce(t2.musicalKey, "C"))
      energy == calculateEnergyCompatibility(Coalesce(t1.energyLevel, Num(1, 2)),
                                             Coalesce(t2.energyLevel, Num(1, 2)))
      spectral == calculateSpectralCompatibility(Coalesce(t1.spectralCentroid, I(0)),
                                                 Coalesce(t2.spectralCentroid, I(0)))
      rhythm == calculateRhythmCompatibility(t1, t2)
      overall == Add(Add(Add(Add(Mul(tempo, weights.tempo),
                                 Mul(key, weights.key)),
                             Mul(energy, weights.energy)),
                         Mul(spectral, weights.spectral)),
                     Mul(rhythm, weights.rhythm))
  IN  [overall |-> overall, tempo |-> tempo, key |-> key, energy |-> energy,
       spectral |-> spectral, rhythm |-> rhythm]

(***************************************************************************)
(* Array helpers                                                           *)
(***************************************************************************)
\* Array.prototype.slice(start, end) for integers start >= 0 and end
ArraySlice(arr, start, end) ==
  LET len == Len(arr)
      final == IF end < 0 THEN (IF len + end < 0 THEN 0 ELSE len + end)
               ELSE IF end > len THEN len ELSE end
  IN  IF final <= start THEN << >>
      ELSE [i \in 1..(final - start) |-> arr[start + i]]

\* one step of a stable insertion sort with the comparator (a, b) => b.k - a.k:
\* x moves in front of every trailing entry e with x.k - e.k > 0
RECURSIVE InsertDescending(_, _)
InsertDescending(sorted, x) ==
  IF Len(sorted) = 0 THEN <<x>>
  ELSE LET last == sorted[Len(sorted)]
       IN  IF Gt(Sub(x.k, last.k), I(0))
           THEN Append(InsertDescending(SubSeq(sorted, 1, Len(sorted) - 1), x), last)
           ELSE Append(sorted, x)

RECURSIVE SortKeyed(_)
SortKeyed(s) ==
  IF Len(s) = 0 THEN << >>
  ELSE InsertDescending(SortKeyed(SubSeq(s, 1, Len(s) - 1)), s[Len(s)])

\* arr.sort((a, b) => b.score - a.score)
SortByScore(points) ==
  LET keyed == [i \in 1..Len(points) |-> [k |-> points[i].score, v |-> points[i]]]
      sorted == SortKeyed(keyed)
  IN  [i \in 1..Len(sorted) |-> sorted[i].v]

\* arr.sort((a, b) => b.strength - a.strength)
SortByStrength(points) ==
  LET keyed == [i \in 1..Len(points) |-> [k |-> points[i].strength, v |-> points[i]]]
      sorted == SortKeyed(keyed)
  IN  [i \in 1..Len(sorted) |-> sorted[i].v]

\* arr.sort((a, b) => b.score.overall - a.score.overall)
SortByOverall(scored) ==
  LET keyed == [i \in 1..Len(scored) |-> [k |-> scored[i].score.overall, v |-> scored[i]]]
      sorted == SortKeyed(keyed)
  IN  [i \in 1..Len(sorted) |-> sorted[i].v]

RECURSIVE Flatten(_)
Flatten(ss) == IF Len(ss) = 0 THEN << >> ELSE Head(ss) \o Flatten(Tail(ss))

findCompatibleTracks(seedTrack, candidates, lim) ==
  LET scoredTracks == [i \in 1..Len(candidates) |->
                         [track |-> candidates[i],
                          score |-> calculateCompatibility(seedTrack, candidates[i])]]
  IN  ArraySlice(SortByOverall(scoredTracks), 0, Coalesce(lim, 10))

\* the caller's array if the method sorted it in place
findCompatibleTracksLeavesSorted(seedTrack, candidates, lim) ==
  LET sorted == findCompatibleTracks(seedTrack, candidates, <<Len(candidates)>>)
  IN  [i \in 1..Len(sorted) |-> sorted[i].track]

\* the caller's candidate array after findCompatibleTracks: map() copies it
\* into scoredTracks, and sort() and slice() act on that copy
findCompatibleTracksLeaves(seedTrack, candidates, lim) == candidates

(***************************************************************************)
(* TransitionOptimizer                                                     *)
(***************************************************************************)
\* the length with Math.max in place of Math.min
calculateOptimalLengthMax(fromTime) ==
  MathRound(Add(I(8), MathMax(I(4), Div(fromTime, I(30)))))

calculateOptimalLength(fromTime) ==
  MathRound(Add(I(8), MathMin(I(4), Div(fromTime, I(30)))))

calculateBeatStrength(fromBeat, toBeat, fromBPM, toBPM) ==
  LET bpmRatio == Div(MathMin(fromBPM, toBPM), MathMax(fromBPM, toBPM))
      phaseAlignment == AbsCosQuarterTurn(Sub(fromBeat, toBeat))
  IN  Mul(bpmRatio, phaseAlignment)

\* the beats at index % 4 === 1 taken as strong beats
strongBeatsOffBeat(beats) ==
  [i \in 1..((Len(beats) + 2) \div 4) |-> beats[4 * (i - 1) + 2]]

\* beats.filter((_, index) => index % 4 === 0)
strongBeats(beats) ==
  [i \in 1..((Len(beats) + 3) \div 4) |-> beats[4 * (i - 1) + 1]]

analyzeBeatAlignment(fromTrack, toTrack) ==
  LET fromBPM == Coalesce(fromTrack.tempo, I(120))
      toBPM == Coalesce(toTrack.tempo, I(120))
      fromBeats == Coalesce(fromTrack.beatPositions, << >>)
      toBeats == Coalesce(toTrack.beatPositions, << >>)
      bpmDifference == MathAbs(Sub(fromBPM, toBPM))
      bpmScore == MathMax(I(0), Sub(I(1), Div(bpmDifference, I(20))))
      fromStrongBeats == strongBeats(fromBeats)
      toStrongBeats == strongBeats(toBeats)
      pointsFor(fromBeat) ==
        Flatten([j \in 1..Len(toStrongBeats) |->
                   LET toBeat == toStrongBeats[j]
                       strength == calculateBeatStrength(fromBeat, toBeat, fromBPM, toBPM)
                   IN  IF Lt(toBeat, I(30)) /\ Gt(strength, Num(3, 5))
                       THEN <<[fromTime |-> fromBeat, toTime |-> toBeat,
                               strength |-> strength]>>
                       ELSE << >>])
      alignmentPoints ==
        IF Len(fromBeats) > 0 /\ Len(toBeats) > 0
        THEN Flatten([i \in 1..Len(fromStrongBeats) |-> pointsFor(fromStrongBeats[i])])
        ELSE << >>
  IN  [score |-> bpmScore,
       points |-> ArraySlice(SortByStrength(alignmentPoints), 0, 10)]

\* the energy match with 0 for a missing energy level
analyzeEnergyMatchZeroDefault(fromTrack, toTrack) ==
  LET fromEnergy == Coalesce(fromTrack.energyLevel, I(0))
      toEnergy == Coalesce(toTrack.energyLevel, I(0))
      energyDifference == MathAbs(Sub(fromEnergy, toEnergy))
  IN  MathMax(I(0), Sub(I(1), Mul(energyDifference, I(2))))

analyzeEnergyMatch(fromTrack, toTrack) ==
  LET fromEnergy == Coalesce(fromTrack.energyLevel, Num(1, 2))
      toEnergy == Coalesce(toTrack.energyLevel, Num(1, 2))
      energyDifference == MathAbs(Sub(fromEnergy, toEnergy))
  IN  MathMax(I(0), Sub(I(1), Mul(energyDifference, I(2))))

optimizerCircleOfFifths ==
  << "C", "G", "D", "A", "E", "B", "F#", "C#", "G#", "D#", "A#", "F",
     "Cm", "Gm", "Dm", "Am", "Em", "Bm", "F#m", "C#m", "G#m", "D#m", "A#m", "Fm" >>

\* the key score over a table of the twelve major keys only
analyzeKeyCompatibilityMajorOnly(fromTrack, toTrack) ==
  LET fromKey == Coalesce(fromTrack.musicalKey, "C")
      toKey == Coalesce(toTrack.musicalKey, "C")
      majorKeys == SubSeq(optimizerCircleOfFifths, 1, 12)
      at1 == TableLookup(majorKeys, fromKey, 1)
      at2 == TableLookup(majorKeys, toKey, 1)
      pos1 == IF at1 < 0 THEN 0 ELSE at1
      pos2 == IF at2 < 0 THEN 0 ELSE at2
      distance == IMin(IAbs(pos1 - pos2),
                       IMin(IAbs(pos1 - pos2 + 12), IAbs(pos1 - pos2 - 12)))
  IN  IF distance = 0 THEN I(1)
      ELSE IF distance <= 1 THEN Num(4, 5)
      ELSE IF distance <= 2 THEN Num(3, 5)
      ELSE IF distance <= 3 THEN Num(2, 5)
      ELSE Num(1, 5)

analyzeKeyCompatibility(fromTrack, toTrack) ==
  LET fromKey == Coalesce(fromTrack.musicalKey, "C")
      toKey == Coalesce(toTrack.musicalKey, "C")
      pos1 == TablePosition(optimizerCircleOfFifths, fromKey)
      pos2 == TablePosition(optimizerCircleOfFifths, toKey)
      distance == MathMin(MathAbs(Sub(pos1, pos2)),
                          MathMin(MathAbs(Add(Sub(pos1, pos2), I(12))),
                                  MathAbs(Sub(Sub(pos1, pos2), I(12)))))
  IN  IF StrictEq(distance, I(0)) THEN I(1)
      ELSE IF Le(distance, I(1)) THEN Num(4, 5)
      ELSE IF Le(distance, I(2)) THEN Num(3, 5)
      ELSE IF Le(distance, I(3)) THEN Num(2, 5)
      ELSE Num(1, 5)

\* the phrase lengths tried longest first
phraseLengthsLongestFirst == <<32, 16, 8>>

phraseLengths == <<8, 16, 32>>

detectPhraseTransitions(fromTrack, toTrack) ==
  LET fromBeats == Coalesce(fromTrack.beatPositions, << >>)
      toBeats == Coalesce(toTrack.beatPositions, << >>)
      \* for (j = 0; j < Math.min(toBeats.length, phraseLength * 2); j += phraseLength)
      inner(phraseLength, fromTime) ==
        LET bound == IMin(Len(toBeats), phraseLength * 2)
            steps == (bound + phraseLength - 1) \div phraseLength
        IN  Flatten([q \in 1..steps |->
                       LET toTime == toBeats[(q - 1) * phraseLength + 1]
                       IN  IF Lt(toTime, I(30))
                           THEN <<[fromTrackTime |-> fromTime, toTrackTime |-> toTime,
                                   score |-> Num(4, 5), type |-> "beatmatch",
                                   length |-> calculateOptimalLength(fromTime),
                                   confidence |-> Num(4, 5)]>>
                           ELSE << >>])
      \* for (i = phraseLength; i < fromBeats.length; i += phraseLength)
      outer(phraseLength) ==
        LET steps == IF Len(fromBeats) = 0 THEN 0
                     ELSE (Len(fromBeats) - 1) \div phraseLength
        IN  Flatten([p \in 1..steps |-> inner(phraseLength, fromBeats[p * phraseLength + 1])])
      phrasePoints == Flatten([n \in 1..Len(phraseLengths) |-> outer(phraseLengths[n])])
  IN  ArraySlice(SortByScore(phrasePoints), 0, 5)

\* the preference table without its bridge row
preferredTransitionsNoBridge ==
  << [from |-> "chorus", to |-> "intro", score |-> I(1)],
     [from |-> "outro", to |-> "intro", score |-> Num(9, 10)],
     [from |-> "verse", to |-> "verse", score |-> Num(4, 5)],
     [from |-> "chorus", to |-> "verse", score |-> Num(7, 10)] >>

preferredTransitions ==
  << [from |-> "chorus", to |-> "intro", score |-> I(1)],
     [from |-> "outro", to |-> "intro", score |-> Num(9, 10)],
     [from |-> "verse", to |-> "verse", score |-> Num(4, 5)],
     [from |-> "chorus", to |-> "verse", score |-> Num(7, 10)],
     [from |-> "bridge", to |-> "intro", score |-> Num(4, 5)] >>

\* a mapping that cuts where no effect is preferred
getTransitionTypeForStructureCut(fromType, toType) ==
  IF fromType = "outro" /\ toType = "intro" THEN "echo_out"
  ELSE IF fromType = "chorus" /\ toType = "intro" THEN "filter_fade"
  ELSE IF fromType = "verse" /\ toType = "verse" THEN "beatmatch"
  ELSE "quick_cut"

getTransitionTypeForStructure(fromType, toType) ==
  IF fromType = "outro" /\ toType = "intro" THEN "echo_out"
  ELSE IF fromType = "chorus" /\ toType = "intro" THEN "filter_fade"
  ELSE IF fromType = "verse" /\ toType = "verse" THEN "beatmatch"
  ELSE "beatmatch"

findStructuralTransitions(fromTrack, toTrack) ==
  LET fromStructure == Coalesce(fromTrack.structureSegments, << >>)
      toStructure == Coalesce(toTrack.structureSegments, << >>)
      \* preferredTransitions.find(...): the first matching entry, if any
      matches(fromSegment, toSegment) ==
        SelectSeq(preferredTransitions,
                  LAMBDA t: t.from = fromSegment.type /\ t.to = toSegment.type)
      pointsFor(fromSegment) ==
        Flatten([j \in 1..Len(toStructure) |->
                   LET toSegment == toStructure[j]
                       found1 == matches(fromSegment, toSegment)
                   IN  IF Lt(toSegment.start, I(60)) /\ Len(found1) > 0
                       THEN <<[fromTrackTime |-> Sub(fromSegment.end, I(8)),
                               toTrackTime |-> toSegment.start,
                               score |-> Mul(Mul(found1[1].score, fromSegment.confidence),
                                             toSegment.confidence),
                               type |-> getTransitionTypeForStructure(fromSegment.type,
                                                                      toSegment.type),
                               length |-> I(16),
                               confidence |-> Mul(fromSegment.confidence,
                                                  toSegment.confidence)]>>
                       ELSE << >>])
      structuralPoints ==
        Flatten([i \in 1..Len(fromStructure) |-> pointsFor(fromStructure[i])])
  IN  ArraySlice(SortByScore(structuralPoints), 0, 3)

isDuplicate(unique, point) ==
  \E i \in 1..Len(unique) :
     /\ Lt(MathAbs(Sub(unique[i].fromTrackTime, point.fromTrackTime)), I(2))
     /\ Lt(MathAbs(Sub(unique[i].toTrackTime, point.toTrackTime)), I(2))

\* a deduplication that compares fromTrackTime only with the last survivor
RECURSIVE removeDuplicatePointsLastOnly(_)
removeDuplicatePointsLastOnly(points) ==
  IF Len(points) = 0 THEN << >>
  ELSE LET unique == removeDuplicatePointsLastOnly(SubSeq(points, 1, Len(points) - 1))
           point == points[Len(points)]
       IN  IF Len(unique) > 0 /\ isDuplicate(<<unique[Len(unique)]>>, point)
           THEN unique ELSE Append(unique, point)

RECURSIVE removeDuplicatePoints(_)
removeDuplicatePoints(points) ==
  IF Len(points) = 0 THEN << >>
  ELSE LET unique == removeDuplicatePoints(SubSeq(points, 1, Len(points) - 1))
           point == points[Len(points)]
       IN  IF isDuplicate(unique, point) THEN unique ELSE Append(unique, point)

\* a combination that sorts by score before it removes duplicates
combineTransitionPointsSortFirst(beatPoints, phrasePoints, structuralPoints) ==
  LET converted == [i \in 1..Len(beatPoints) |->
                      [fromTrackTime |-> beatPoints[i].fromTime,
                       toTrackTime |-> beatPoints[i].toTime,
                       score |-> beatPoints[i].strength,
                       type |-> "beatmatch",
                       length |-> calculateOptimalLength(beatPoints[i].fromTime),
                       confidence |-> beatPoints[i].strength]]
      allPoints == converted \o phrasePoints \o structuralPoints
  IN  SortByScore(removeDuplicatePoints(SortByScore(allPoints)))

combineTransitionPoints(beatPoints, phrasePoints, structuralPoints) ==
  LET converted == [i \in 1..Len(beatPoints) |->
                      [fromTrackTime |-> beatPoints[i].fromTime,
                       toTrackTime |-> beatPoints[i].toTime,
                       score |-> beatPoints[i].strength,
                       type |-> "beatmatch",
                       length |-> calculateOptimalLength(beatPoints[i].fromTime),
                       confidence |-> beatPoints[i].strength]]
      allPoints == converted \o phrasePoints \o structuralPoints
  IN  SortByScore(removeDuplicatePoints(allPoints))

\* the decision with filter_fade as the fallback
determineTransitionTypeFadeDefault(beatScore, energyScore, keyScore) ==
  LET overallScore == Div(Add(Add(beatScore, energyScore), keyScore), I(3))
  IN  IF Gt(overallScore, Num(4, 5)) THEN "beatmatch"
      ELSE IF Lt(energyScore, Num(3, 10)) THEN "echo_out"
      ELSE "filter_fade"

\* the decision with the key rule tried before the energy rule
determineTransitionTypeKeyFirst(beatScore, energyScore, keyScore) ==
  LET overallScore == Div(Add(Add(beatScore, energyScore), keyScore), I(3))
  IN  IF Gt(overallScore, Num(4, 5)) THEN "beatmatch"
      ELSE IF Lt(keyScore, Num(2, 5)) THEN "filter_fade"
      ELSE IF Lt(energyScore, Num(3, 10)) THEN "echo_out"
      ELSE "beatmatch"

determineTransitionType(beatScore, energyScore, keyScore) ==
  LET overallScore == Div(Add(Add(beatScore, energyScore), keyScore), I(3))
  IN  IF Gt(overallScore, Num(4, 5)) THEN "beatmatch"
      ELSE IF Lt(energyScore, Num(3, 10)) THEN "echo_out"
      ELSE IF Lt(keyScore, Num(2, 5)) THEN "filter_fade"
      ELSE "beatmatch"

calculateTransitionLength(beatScore, energyScore, bpm) ==
  LET baseLength == Mul(Div(I(60), bpm), I(16))
      compatibilityMultiplier == Div(Add(beatScore, energyScore), I(2))
  IN  MathRound(Mul(baseLength, Add(Num(1, 2), compatibilityMultiplier)))

calculateOverallConfidence(beatScore, energyScore, keyScore) ==
  Add(Add(Mul(beatScore, Num(2, 5)), Mul(energyScore, Num(3, 10))),
      Mul(keyScore, Num(3, 10)))

analyzeTransition(fromTrack, toTrack) ==
  LET beatAlignment == analyzeBeatAlignment(fromTrack, toTrack)
      energyMatch == analyzeEnergyMatch(fromTrack, toTrack)
      keyCompatibility == analyzeKeyCompatibility(fromTrack, toTrack)
      phrasePoints == detectPhraseTransitions(fromTrack, toTrack)
      structuralPoints == findStructuralTransitions(fromTrack, toTrack)
      optimalPoints == combineTransitionPoints(beatAlignment.points, phrasePoints,
                                               structuralPoints)
  IN  [optimalPoints |-> ArraySlice(optimalPoints, 0, 5),
       energyMatchScore |-> energyMatch,
       beatAlignmentScore |-> beatAlignment.score,
       keyCompatibilityScore |-> keyCompatibility,
       recommendedLength |-> calculateTransitionLength(beatAlignment.score, energyMatch,
                                                       Coalesce(fromTrack.tempo, I(120))),
       transitionType |-> determineTransitionType(beatAlignment.score, energyMatch,
                                                  keyCompatibility),
       confidence |-> calculateOverallConfidence(beatAlignment.score, energyMatch,
                                                 keyCompatibility)]

\* the caller's two tracks after analyzeTransition: beatPositions is read by
\* index and copied by filter(), structureSegments is read by forEach(), and
\* every sort() is called on an array the method built itself
\* (alignmentPoints, phrasePoints, structuralPoints, the result of
\* removeDuplicatePoints)
analyzeTransitionLeaves(fromTrack, toTrack) == <<fromTrack, toTrack>>

\* the minutes and seconds that formatTime prints as `${mins}:${secs}`
formatTime(seconds) ==
  [mins |-> MathFloor(Div(seconds, I(60))),
   secs |-> MathFloor(Remainder(seconds, I(60)))]

\* one line of the instructions: the heading of its text, the label it
\* carries (if any) and the numbers printed in it
Line(heading, label, numbers) ==
  [heading |-> heading, label |-> label, numbers |-> numbers]

NoPointsLine ==
  Line("No optimal transition points found. Consider manual mixing.", "", << >>)

confidenceLevel(confidence) ==
  IF Gt(confidence, Num(4, 5)) THEN "High"
  ELSE IF Gt(confidence, Num(1, 2)) THEN "Medium"
  ELSE "Low"

\* a formatter that adds the confidence line to the fallback line
generateMixingInstructionsFallbackFirst(analysis1, fromTrack, toTrack) ==
  LET confidenceLine ==
        <<Line("Confidence", confidenceLevel(analysis1.confidence),
               <<MathRound(Mul(analysis1.confidence, I(100)))>>)>>
  IN  IF Len(analysis1.optimalPoints) = 0 THEN <<NoPointsLine>> \o confidenceLine
      ELSE confidenceLine

\* a formatter that selects the technique by the type of the analysis
generateMixingInstructionsByAnalysisType(analysis1, fromTrack, toTrack) ==
  IF Len(analysis1.optimalPoints) = 0 THEN <<NoPointsLine>>
  ELSE
    LET bestPoint == analysis1.optimalPoints[1]
        from == formatTime(bestPoint.fromTrackTime)
        to == formatTime(bestPoint.toTrackTime)
        cuePoint ==
          <<Line("Optimal Cue Point", "", <<from.mins, from.secs, to.mins, to.secs>>)>>
        byType ==
          IF analysis1.transitionType = "beatmatch"
          THEN <<Line("Beatmatch Transition", "", << >>),
                 Line("Transition Length", "", <<analysis1.recommendedLength>>)>>
          ELSE IF analysis1.transitionType = "echo_out" THEN <<Line("Echo Out", "", << >>)>>
          ELSE IF analysis1.transitionType = "filter_fade" THEN <<Line("Filter Fade", "", << >>)>>
          ELSE IF analysis1.transitionType = "quick_cut" THEN <<Line("Quick Cut", "", << >>)>>
          ELSE << >>
        keyAdvice ==
          IF Gt(analysis1.keyCompatibilityScore, Num(7, 10))
          THEN <<Line("Key Match", "", << >>)>>
          ELSE IF Lt(analysis1.keyCompatibilityScore, Num(2, 5))
          THEN <<Line("Key Clash", "", << >>)>>
          ELSE << >>
        fromBPM == Coalesce(fromTrack.tempo, I(120))
        toBPM == Coalesce(toTrack.tempo, I(120))
        bpmAdvice ==
          IF Gt(MathAbs(Sub(fromBPM, toBPM)), I(5))
          THEN <<Line("BPM", "", <<MathRound(fromBPM), MathRound(toBPM)>>)>>
          ELSE << >>
        energyAdvice ==
          IF Gt(analysis1.energyMatchScore, Num(4, 5))
          THEN <<Line("Energy", "Perfect energy flow", << >>)>>
          ELSE IF Lt(analysis1.energyMatchScore, Num(3, 10))
          THEN <<Line("Energy", "Significant energy change", << >>)>>
          ELSE << >>
        confidenceLine ==
          <<Line("Confidence", confidenceLevel(analysis1.confidence),
                 <<MathRound(Mul(analysis1.confidence, I(100)))>>)>>
    IN  cuePoint \o byType \o keyAdvice \o bpmAdvice \o energyAdvice \o confidenceLine

generateMixingInstructions(analysis1, fromTrack, toTrack) ==
  IF Len(analysis1.optimalPoints) = 0 THEN <<NoPointsLine>>
  ELSE
    LET bestPoint == analysis1.optimalPoints[1]
        from == formatTime(bestPoint.fromTrackTime)
        to == formatTime(bestPoint.toTrackTime)
        cuePoint ==
          <<Line("Optimal Cue Point", "", <<from.mins, from.secs, to.mins, to.secs>>)>>
        byType ==
          IF bestPoint.type = "beatmatch"
          THEN <<Line("Beatmatch Transition", "", << >>),
                 Line("Transition Length", "", <<analysis1.recommendedLength>>)>>
          ELSE IF bestPoint.type = "echo_out" THEN <<Line("Echo Out", "", << >>)>>
          ELSE IF bestPoint.type = "filter_fade" THEN <<Line("Filter Fade", "", << >>)>>
          ELSE IF bestPoint.type = "quick_cut" THEN <<Line("Quick Cut", "", << >>)>>
          ELSE << >>
        keyAdvice ==
          IF Gt(analysis1.keyCompatibilityScore, Num(7, 10))
          THEN <<Line("Key Match", "", << >>)>>
          ELSE IF Lt(analysis1.keyCompatibilityScore, Num(2, 5))
          THEN <<Line("Key Clash", "", << >>)>>
          ELSE << >>
        fromBPM == Coalesce(fromTrack.tempo, I(120))
        toBPM == Coalesce(toTrack.tempo, I(120))
        bpmAdvice ==
          IF Gt(MathAbs(Sub(fromBPM, toBPM)), I(5))
          THEN <<Line("BPM", "", <<MathRound(fromBPM), MathRound(toBPM)>>)>>
          ELSE << >>
        energyAdvice ==
          IF Gt(analysis1.energyMatchScore, Num(4, 5))
          THEN <<Line("Energy", "Perfect energy flow", << >>)>>
          ELSE IF Lt(analysis1.energyMatchScore, Num(3, 10))
          THEN <<Line("Energy", "Significant energy change", << >>)>>
          ELSE << >>
        confidenceLine ==
          <<Line("Confidence", confidenceLevel(analysis1.confidence),
                 <<MathRound(Mul(analysis1.confidence, I(100)))>>)>>
    IN  cuePoint \o byType \o keyAdvice \o bpmAdvice \o energyAdvice \o confidenceLine

\* the caller's analysis after generateMixingInstructions, which reads
\* optimalPoints[0] and four scores and pushes to its own array only
generateMixingInstructionsLeaves(analysis1, fromTrack, toTrack) == analysis1

(***************************************************************************)
(* POST /api/playlists/generate                                            *)
(*                                                                         *)
(* A JSON value stored in a feature row is null, a number, a string or an  *)
(* array: [kind |-> "null"], [kind |-> "number", value |-> x],             *)
(* [kind |-> "string", value |-> s], [kind |-> "array", items |-> seq].    *)
(***************************************************************************)
JsonNull == [kind |-> "null"]

JsonNumber(x) == [kind |-> "number", value |-> x]

JsonString(str) == [kind |-> "string", value |-> str]

JsonArray(items) == [kind |-> "array", items |-> items]

safeNumberArray(value) ==
  IF /\ value.kind = "array"
     /\ \A i \in 1..Len(value.items) : value.items[i].kind = "number"
  THEN <<[i \in 1..Len(value.items) |-> value.items[i].value]>>
  ELSE Absent

\* the array is cast as it is stored; the rows of the model hold no segments
safeStructureSegments(value) ==
  IF value.kind = "array" THEN <<value.items>> ELSE Absent

\* the fields the comparator does not read (loudness, danceability, valence,
\* spectralRolloff, zeroCrossingRate, mfcc, chroma, createdAt) are left out
convertPrismaToTrackFeatures(prismaFeatures) ==
  [id |-> prismaFeatures.id,
   trackId |-> prismaFeatures.trackId,
   tempo |-> prismaFeatures.tempo,
   musicalKey |-> prismaFeatures.musicalKey,
   energyLevel |-> prismaFeatures.energyLevel,
   spectralCentroid |-> prismaFeatures.spectralCentroid,
   beatPositions |-> safeNumberArray(prismaFeatures.beatPositions),
   structureSegments |-> safeStructureSegments(prismaFeatures.structureSegments)]

ErrorResponse(status) == [status |-> status, tracks |-> << >>, created |-> << >>]

\* the handler on a request body and the rows of the track table: the
\* response and, in created, the playlist row it inserts
POST(body, tracks) ==
  IF Len(body.seedTrackId) = 0 \/ body.seedTrackId[1] = "" THEN ErrorResponse(400)
  ELSE
    LET seedTrackId == body.seedTrackId[1]
        playlistLength == Coalesce(body.playlistLength, 10)
        seedRows == SelectSeq(tracks, LAMBDA t: t.id = seedTrackId)
    IN  IF Len(seedRows) = 0 \/ Len(seedRows[1].features) = 0 THEN ErrorResponse(404)
        ELSE
          LET seedTrack == seedRows[1]
              candidateRows ==
                SelectSeq(tracks, LAMBDA t: t.id # seedTrackId /\ Len(t.features) > 0)
          IN  IF Len(candidateRows) = 0 THEN ErrorResponse(404)
              ELSE
                LET seedFeatures == convertPrismaToTrackFeatures(seedTrack.features[1])
                    candidateFeatures ==
                      [i \in 1..Len(candidateRows) |->
                         convertPrismaToTrackFeatures(candidateRows[i].features[1])]
                    compatibleTracks ==
                      findCompatibleTracks(seedFeatures, candidateFeatures,
                                           <<playlistLength - 1>>)
                    fullTrack(item) ==
                      SelectSeq(candidateRows,
                                LAMBDA t: t.features[1].id = item.track.id)[1]
                    playlistTracks ==
                      <<[track |-> seedTrack, position |-> 0,
                         compatibilityScore |-> Absent]>>
                      \o [index \in 1..Len(compatibleTracks) |->
                            [track |-> fullTrack(compatibleTracks[index]),
                             position |-> index,
                             compatibilityScore |-> <<compatibleTracks[index].score>>]]
                    \* score: item.compatibilityScore?.overall || 1.0
                    storedScore(item) ==
                      IF Len(item.compatibilityScore) = 0 THEN I(1)
                      ELSE LET overall == item.compatibilityScore[1].overall
                           IN  IF IsNaN(overall) \/ overall = I(0) THEN I(1) ELSE overall
                    playlist ==
                      [seedTrackId |-> seedTrackId,
                       trackOrder |->
                         [i \in 1..Len(playlistTracks) |->
                            [trackId |-> playlistTracks[i].track.id,
                             position |-> playlistTracks[i].position,
                             score |-> storedScore(playlistTracks[i])]]]
                IN  [status |-> 200, tracks |-> playlistTracks, created |-> <<playlist>>]

(***************************************************************************)
(* Inputs                                                                  *)
(***************************************************************************)
MaxCandidates == 3

MaxBeats == 17

Track(tempo, key, energy, centroid, beats, segments) ==
  [tempo |-> tempo, musicalKey |-> key, energyLevel |-> energy,
   spectralCentroid |-> centroid, beatPositions |-> beats,
   structureSegments |-> segments]

\* count beats, period seconds apart, the first at start
Beats(start, period, count) == [i \in 1..count |-> I(start + (i - 1) * period)]

Segment(start, end, type, confidence) ==
  [start |-> I(start), end |-> I(end), type |-> type, confidence |-> confidence]

\* tracks that differ in the four scalar features
ScoringTracks ==
  { Track(t, k, e, c, Absent, Absent) :
      t \in {Absent, <<I(115)>>, <<I(110)>>, <<I(100)>>, <<I(0)>>, <<I(-120)>>},
      k \in {Absent, <<"G">>, <<"F#m">>},
      e \in {Absent, <<I(1)>>, <<Num(3, 20)>>},
      c \in {Absent, <<Num(1, 2)>>, <<I(1000)>>, <<I(3000)>>} }

\* tracks that differ in the musical key only: the 24 keys of the table, two
\* spellings the table does not have, a string that names an inherited
\* property of the table object, and no key
KeyTracks ==
  { Track(Absent, k, Absent, Absent, Absent, Absent) :
      k \in {Absent, <<"Db">>, <<"C major">>, <<"constructor">>}
            \cup {<<circleOfFifths[i]>> : i \in 1..Len(circleOfFifths)} }

\* tracks that differ in the musical key and the energy level
KeyEnergyTracks ==
  { Track(Absent, k, e, Absent, Absent, Absent) :
      k \in {Absent, <<"Db">>, <<"C major">>}
            \cup {<<circleOfFifths[i]>> : i \in 1..Len(circleOfFifths)},
      e \in {Absent, <<I(1)>>, <<Num(3, 20)>>} }

\* tracks that differ in tempo, key and energy
DecisionTracks ==
  { Track(t, k, e, Absent, Absent, Absent) :
      t \in {Absent, <<I(174)>>, <<I(90)>>, <<I(115)>>, <<I(110)>>, <<I(105)>>,
             <<I(2000)>>, <<I(0)>>, <<I(-120)>>},
      k \in {Absent, <<"G">>, <<"D">>, <<"A">>, <<"E">>},
      e \in {Absent, <<I(1)>>, <<Num(3, 20)>>, <<Num(1, 10)>>} }

CandidatePool ==
  { Track(t, Absent, Absent, c, Absent, Absent) :
      t \in {Absent, <<I(115)>>, <<I(0)>>},
      c \in {Absent, <<I(3000)>>} }

SeedTracks ==
  { Track(t, Absent, Absent, Absent, Absent, Absent) :
      t \in {Absent, <<I(100)>>, <<I(0)>>} }

CandidateLists == UNION { [1..n -> CandidatePool] : n \in 0..MaxCandidates }

Limits == {Absent} \cup { <<i>> : i \in (-2)..(MaxCandidates + 1) }

\* the sub-lists of a pool of segments, in the pool's (time) order
SubLists(pool) ==
  { [i \in 1..Cardinality(picked) |->
       pool[CHOOSE j \in picked : Cardinality({m \in picked : m < j}) = i - 1]] :
      picked \in SUBSET (1..Len(pool)) }

OutgoingSegments ==
  << Segment(0, 6, "verse", Num(1, 2)), Segment(6, 16, "chorus", I(1)),
     Segment(16, 32, "outro", I(1)) >>

IncomingSegments ==
  << Segment(0, 16, "intro", I(1)), Segment(16, 32, "verse", Num(1, 2)),
     Segment(60, 70, "intro", I(1)) >>

\* StructureSegment['type']
SegmentTypes == {"intro", "verse", "chorus", "bridge", "outro"}

\* outgoing tracks of two segments of every type
StructureOutgoing ==
  { Track(Absent, Absent, Absent, Absent, Absent,
          << <<Segment(0, 16, a, c), Segment(16, 32, b, I(1))>> >>) :
      a \in SegmentTypes, b \in SegmentTypes, c \in {Num(1, 2), I(1)} }

\* incoming tracks of two segments of every type, the second starting before
\* or at the end of the first minute
StructureIncoming ==
  { Track(Absent, Absent, Absent, Absent, Absent,
          << <<Segment(0, 16, a, I(1)), Segment(start, start + 16, b, c)>> >>) :
      a \in SegmentTypes, b \in SegmentTypes, c \in {Num(1, 2), I(1)},
      start \in {16, 60} }

\* outgoing tracks with beats and segments
OutgoingTracks ==
  { Track(t, Absent, Absent, Absent, b, g) :
      t \in {Absent, <<I(100)>>, <<I(-120)>>, <<I(-60)>>},
      b \in {Absent, <<Beats(0, 1, MaxBeats)>>, <<Beats(0, 1, 9)>>, <<Beats(1, 1, 9)>>,
             <<Beats(0, 30, 9)>>},
      g \in {Absent} \cup { <<l>> : l \in SubLists(OutgoingSegments) } }

\* incoming tracks with beats and segments
IncomingTracks ==
  { Track(t, Absent, Absent, Absent, b, g) :
      t \in {Absent, <<I(100)>>, <<I(-60)>>},
      b \in {Absent, <<Beats(0, 1, MaxBeats)>>, <<Beats(1, 1, 9)>>,
             <<Beats(22, 1, MaxBeats)>>},
      g \in {Absent} \cup { <<l>> : l \in SubLists(IncomingSegments) } }

\* tracks with every subset of the six optional fields absent
PartialOutgoing ==
  { Track(t, k, e, c, b, g) :
      t \in {Absent, <<I(100)>>},
      k \in {Absent, <<"E">>},
      e \in {Absent, <<Num(3, 5)>>},
      c \in {Absent, <<I(3000)>>},
      b \in {Absent, <<Beats(0, 1, 9)>>},
      g \in {Absent, <<OutgoingSegments>>} }

PartialIncoming ==
  { Track(t, k, e, c, b, g) :
      t \in {Absent, <<I(100)>>},
      k \in {Absent, <<"E">>},
      e \in {Absent, <<Num(3, 5)>>},
      c \in {Absent, <<I(3000)>>},
      b \in {Absent, <<Beats(0, 1, 9)>>},
      g \in {Absent, <<IncomingSegments>>} }

\* arguments for calls of all four methods on one pair of instances
CallOutgoing ==
  { Track(Absent, Absent, Absent, Absent, <<Beats(0, 1, 9)>>, <<OutgoingSegments>>),
    Track(<<I(100)>>, <<"E">>, <<I(1)>>, <<I(3000)>>, Absent, Absent) }

CallIncoming ==
  { Track(Absent, Absent, Absent, Absent, <<Beats(0, 1, 9)>>, <<IncomingSegments>>),
    Track(<<I(110)>>, Absent, Absent, Absent, <<Beats(1, 1, 9)>>, Absent) }

CallCandidates ==
  UNION { [1..n -> { Track(t, Absent, Absent, Absent, Absent, Absent) :
                       t \in {Absent, <<I(115)>>} }] : n \in 0..MaxCandidates }

\* outgoing tracks for the formatter: beats and segments absent, empty or
\* present
InstructionOutgoing ==
  { Track(t, k, e, Absent, b, g) :
      t \in {Absent, <<I(110)>>, <<I(100)>>},
      k \in {Absent, <<"E">>},
      e \in {Absent, <<I(1)>>},
      b \in {Absent, << << >> >>, <<Beats(0, 1, 9)>>},
      g \in {Absent, << << >> >>, <<OutgoingSegments>>} }

\* incoming tracks for the formatter
InstructionIncoming ==
  { Track(t, Absent, e, Absent, b, g) :
      t \in {Absent, <<I(100)>>},
      e \in {Absent, <<Num(4, 5)>>, <<Num(1, 10)>>},
      b \in {Absent, << << >> >>, <<Beats(0, 1, 9)>>},
      g \in {Absent, << << >> >>, <<IncomingSegments>>} }

MaxLibrary == 3

TrackIds == <<"t1", "t2", "t3", "t4", "t5">>

\* a feature row: the scalar columns and the two JSON columns
FeatureRow(id, trackId, tempo, beats) ==
  [id |-> id, trackId |-> trackId, tempo |-> tempo, musicalKey |-> Absent,
   energyLevel |-> Absent, spectralCentroid |-> Absent, beatPositions |-> beats,
   structureSegments |-> JsonNull]

\* what the track with a given id may have as features: none, or a row with
\* tempo null, 115 or 0 and with beats null, numbers or not all numbers
FeatureRows(trackId) ==
  << Absent,
     <<FeatureRow("f" \o trackId, trackId, Absent, JsonNull)>>,
     <<FeatureRow("f" \o trackId, trackId, <<I(115)>>,
                  JsonArray(<<JsonNumber(I(0)), JsonNumber(Num(1, 2))>>))>>,
     <<FeatureRow("f" \o trackId, trackId, <<I(0)>>,
                  JsonArray(<<JsonNumber(I(0)), JsonString("1")>>))>> >>

\* track tables of up to MaxLibrary tracks
Libraries ==
  UNION { { [i \in 1..n |->
               [id |-> TrackIds[i], features |-> FeatureRows(TrackIds[i])[choice[i]]]] :
              choice \in [1..n -> 1..4] }
          : n \in 0..MaxLibrary }

\* request bodies: the seed id missing, empty, of a track or of no track, and
\* playlistLength missing or an integer
Requests ==
  [seedTrackId : {Absent, <<"">>, <<"t1">>, <<"t2">>, <<"t9">>},
   playlistLength : {Absent} \cup { <<i>> : i \in (-1)..(MaxLibrary + 1) }]

(***************************************************************************)
(* The engine as a state machine: the caller's arguments are chosen in the *)
(* initial state and each action is one call of a public method, which     *)
(* records its result.                                                     *)
(***************************************************************************)
\* the engine called directly: no track table and no request
NoRoute ==
  /\ library = << >>
  /\ request = [seedTrackId |-> Absent, playlistLength |-> Absent]

\* the component as mounted: useState(false), useState(null), useState(null),
\* useState(false), no run started
NoUpload ==
  /\ isProcessing = FALSE
  /\ uploadProgress = Absent
  /\ error = Absent
  /\ dragActive = FALSE
  /\ dialogOpen = FALSE
  /\ runs = << >>
  /\ uploaded = << >>

InitResults ==
  /\ called = {}
  /\ score = NoResult
  /\ analysis = NoResult
  /\ found = NoResult
  /\ instructions = NoResult
  /\ response = NoResult
  /\ playlists = << >>

CalculateCompatibility ==
  /\ "calculateCompatibility" \notin called
  /\ called' = called \cup {"calculateCompatibility"}
  /\ score' = calculateCompatibility(track1, track2)
  /\ UNCHANGED <<track1, track2, candidateTracks, limit, analysis, found, instructions>>
  /\ UNCHANGED routeVars
  /\ UNCHANGED uploaderVars

FindCompatibleTracks ==
  /\ "findCompatibleTracks" \notin called
  /\ called' = called \cup {"findCompatibleTracks"}
  /\ found' = findCompatibleTracks(track1, candidateTracks, limit)
  /\ candidateTracks' = findCompatibleTracksLeaves(track1, candidateTracks, limit)
  /\ UNCHANGED <<track1, track2, limit, score, analysis, instructions>>
  /\ UNCHANGED routeVars
  /\ UNCHANGED uploaderVars

AnalyzeTransition ==
  /\ "analyzeTransition" \notin called
  /\ called' = called \cup {"analyzeTransition"}
  /\ analysis' = analyzeTransition(track1, track2)
  /\ track1' = analyzeTransitionLeaves(track1, track2)[1]
  /\ track2' = analyzeTransitionLeaves(track1, track2)[2]
  /\ UNCHANGED <<candidateTracks, limit, score, found, instructions>>
  /\ UNCHANGED routeVars
  /\ UNCHANGED uploaderVars

\* the caller passes the analysis it got from analyzeTransition, with the
\* same two tracks
GenerateMixingInstructions ==
  /\ "analyzeTransition" \in called
  /\ "generateMixingInstructions" \notin called
  /\ called' = called \cup {"generateMixingInstructions"}
  /\ instructions' = generateMixingInstructions(analysis, track1, track2)
  /\ analysis' = generateMixingInstructionsLeaves(analysis, track1, track2)
  /\ UNCHANGED <<track1, track2, candidateTracks, limit, score, found>>
  /\ UNCHANGED routeVars
  /\ UNCHANGED uploaderVars

\* calculateCompatibility on two tracks with scalar features
Init ==
  /\ track1 \in ScoringTracks
  /\ track2 \in ScoringTracks
  /\ candidateTracks = << >>
  /\ limit = Absent
  /\ InitResults
  /\ NoRoute
  /\ NoUpload

Next == CalculateCompatibility

Spec == Init /\ [][Next]_vars

\* findCompatibleTracks on a seed, a candidate list and a limit
InitFind ==
  /\ track1 \in SeedTracks
  /\ track2 = track1
  /\ candidateTracks \in CandidateLists
  /\ limit \in Limits
  /\ InitResults
  /\ NoRoute
  /\ NoUpload

NextFind == FindCompatibleTracks

SpecFind == InitFind /\ [][NextFind]_vars

\* both key scorers on every pair of keys
InitKeys ==
  /\ track1 \in KeyTracks
  /\ track2 \in KeyTracks
  /\ candidateTracks = << >>
  /\ limit = Absent
  /\ InitResults
  /\ NoRoute
  /\ NoUpload

NextKeys == CalculateCompatibility \/ AnalyzeTransition

SpecKeys == InitKeys /\ [][NextKeys]_vars

\* analyzeTransition on tracks without beats or segments
InitDecision ==
  /\ track1 \in DecisionTracks
  /\ track2 \in DecisionTracks
  /\ candidateTracks = << >>
  /\ limit = Absent
  /\ InitResults
  /\ NoRoute
  /\ NoUpload

NextDecision == AnalyzeTransition

SpecDecision == InitDecision /\ [][NextDecision]_vars

\* analyzeTransition on tracks with beats and segments
InitTransition ==
  /\ track1 \in OutgoingTracks
  /\ track2 \in IncomingTracks
  /\ candidateTracks = << >>
  /\ limit = Absent
  /\ InitResults
  /\ NoRoute
  /\ NoUpload

NextTransition == AnalyzeTransition

SpecTransition == InitTransition /\ [][NextTransition]_vars

\* analyzeTransition on tracks with segments of every type
InitStructure ==
  /\ track1 \in StructureOutgoing
  /\ track2 \in StructureIncoming
  /\ candidateTracks = << >>
  /\ limit = Absent
  /\ InitResults
  /\ NoRoute
  /\ NoUpload

NextStructure == AnalyzeTransition

SpecStructure == InitStructure /\ [][NextStructure]_vars

\* both scorers on every pair of keys and energy levels
InitDrift ==
  /\ track1 \in KeyEnergyTracks
  /\ track2 \in KeyEnergyTracks
  /\ candidateTracks = << >>
  /\ limit = Absent
  /\ InitResults
  /\ NoRoute
  /\ NoUpload

NextDrift == CalculateCompatibility \/ AnalyzeTransition

SpecDrift == InitDrift /\ [][NextDrift]_vars

\* both scorers on tracks with absent fields
InitPartial ==
  /\ track1 \in PartialOutgoing
  /\ track2 \in PartialIncoming
  /\ candidateTracks = << >>
  /\ limit = Absent
  /\ InitResults
  /\ NoRoute
  /\ NoUpload

NextPartial == CalculateCompatibility \/ AnalyzeTransition

SpecPartial == InitPartial /\ [][NextPartial]_vars

\* the four public methods called in any order on the same arguments
InitCalls ==
  /\ track1 \in CallOutgoing
  /\ track2 \in CallIncoming
  /\ candidateTracks \in CallCandidates
  /\ limit \in {Absent, <<1>>}
  /\ InitResults
  /\ NoRoute
  /\ NoUpload

NextCalls ==
  \/ CalculateCompatibility
  \/ FindCompatibleTracks
  \/ AnalyzeTransition
  \/ GenerateMixingInstructions

SpecCalls == InitCalls /\ [][NextCalls]_vars

\* one request to POST /api/playlists/generate
GeneratePlaylist ==
  /\ response = NoResult
  /\ response' = POST(request, library)
  /\ playlists' = playlists \o response'.created
  /\ UNCHANGED <<library, request>>
  /\ UNCHANGED engineVars
  /\ UNCHANGED uploaderVars

InitPlaylist ==
  /\ library \in Libraries
  /\ request \in Requests
  /\ track1 = Track(Absent, Absent, Absent, Absent, Absent, Absent)
  /\ track2 = track1
  /\ candidateTracks = << >>
  /\ limit = Absent
  /\ InitResults
  /\ NoUpload

NextPlaylist == GeneratePlaylist

SpecPlaylist == InitPlaylist /\ [][NextPlaylist]_vars

\* analyzeTransition, then generateMixingInstructions on its result
InitInstructions ==
  /\ track1 \in InstructionOutgoing
  /\ track2 \in InstructionIncoming
  /\ candidateTracks = << >>
  /\ limit = Absent
  /\ InitResults
  /\ NoRoute
  /\ NoUpload

NextInstructions == AnalyzeTransition \/ GenerateMixingInstructions

SpecInstructions == InitInstructions /\ [][NextInstructions]_vars

(***************************************************************************)
(* TrackUploader                                                           *)
(*                                                                         *)
(* The state setters called between two awaits take effect together, in    *)
(* one step.  A run of processFile is at "upload" (awaiting the upload     *)
(* fetch), "uploadErrorBody", "uploadBody", "resume", "analyze", "save",   *)
(* "saveErrorBody", "saveBody" (awaiting the promise of that name),        *)
(* "timer" (the 1000 ms timeout is pending) or "done".                     *)
(***************************************************************************)
MaxRuns == 2

\* the files a user can hand over: type or extension allowed or not, size
maxSize == 50 * 1024 * 1024

Files == [allowed : BOOLEAN, size : {0, 1024, maxSize + 1}]

uploaderState ==
  [isProcessing |-> isProcessing, uploadProgress |-> uploadProgress, error |-> error]

SetState(next) ==
  /\ isProcessing' = next.isProcessing
  /\ uploadProgress' = next.uploadProgress
  /\ error' = next.error

clearState(state) ==
  [state EXCEPT !.error = Absent, !.uploadProgress = Absent, !.isProcessing = FALSE]

updateProgress(state, stage, progress) ==
  [state EXCEPT !.uploadProgress = <<[stage |-> stage, progress |-> progress]>>]

setUploadError(state, type) ==
  [state EXCEPT !.error = <<type>>, !.isProcessing = FALSE, !.uploadProgress = Absent]

\* TRUE when the file passes; otherwise the caller's state gets the file error
validateFile(file) ==
  /\ file.allowed
  /\ ~(file.size > maxSize)
  /\ file.size # 0

\* processFile up to its first await: clearState, setIsProcessing(true),
\* validateFile, and for a valid file the first progress and the upload fetch
processFile(file) ==
  LET started == [clearState(uploaderState) EXCEPT !.isProcessing = TRUE]
  IN  /\ Len(runs) < MaxRuns
      /\ IF validateFile(file)
         THEN /\ SetState(updateProgress(started, "uploading", 10))
              /\ runs' = Append(runs, "upload")
         ELSE /\ SetState(setUploadError(started, "file"))
              /\ runs' = Append(runs, "done")
      /\ uploaded' = uploaded

\* handleFileSelect: nothing without a file, processFile(files[0]) otherwise
handleFileSelect(files) ==
  IF Len(files) = 0
  THEN UNCHANGED <<isProcessing, uploadProgress, error, runs, uploaded>>
  ELSE processFile(files[1])

\* a click on the upload area opens the file dialog unless isProcessing
HandleClick ==
  /\ ~isProcessing
  /\ ~dialogOpen
  /\ dialogOpen' = TRUE
  /\ UNCHANGED <<isProcessing, uploadProgress, error, dragActive, runs, uploaded>>
  /\ UNCHANGED <<engineVars, routeVars>>

\* the file dialog closes: with no file, or with a file and a change event
\* (no change event from the input while it is disabled)
HandleChange ==
  /\ dialogOpen
  /\ dialogOpen' = FALSE
  /\ \E files \in {<< >>} \cup { <<file>> : file \in Files } :
        IF isProcessing
        THEN UNCHANGED <<isProcessing, uploadProgress, error, runs, uploaded>>
        ELSE handleFileSelect(files)
  /\ UNCHANGED dragActive
  /\ UNCHANGED <<engineVars, routeVars>>

HandleDragEnter ==
  /\ dragActive' = TRUE
  /\ UNCHANGED <<isProcessing, uploadProgress, error, dialogOpen, runs, uploaded>>
  /\ UNCHANGED <<engineVars, routeVars>>

HandleDragLeave ==
  /\ dragActive' = FALSE
  /\ UNCHANGED <<isProcessing, uploadProgress, error, dialogOpen, runs, uploaded>>
  /\ UNCHANGED <<engineVars, routeVars>>

HandleDrop ==
  /\ dragActive' = FALSE
  /\ \E files \in {<< >>} \cup { <<file>> : file \in Files } : handleFileSelect(files)
  /\ UNCHANGED dialogOpen
  /\ UNCHANGED <<engineVars, routeVars>>

\* the "Try again" and "Clear Error" buttons, rendered while error is set
ClearError ==
  /\ error # Absent
  /\ SetState(clearState(uploaderState))
  /\ UNCHANGED <<dragActive, dialogOpen, runs, uploaded>>
  /\ UNCHANGED <<engineVars, routeVars>>

\* run r moves to position pc with the component state next
Continue(r, pc, next) ==
  /\ runs' = [runs EXCEPT ![r] = pc]
  /\ SetState(next)
  /\ UNCHANGED <<dragActive, dialogOpen, uploaded>>
  /\ UNCHANGED <<engineVars, routeVars>>

\* the upload fetch settles: rejected, a response that is not ok, or ok
UploadSettles(r) ==
  /\ runs[r] = "upload"
  /\ \E outcome \in {"rejected", "notOk", "ok"} :
        CASE outcome = "rejected" ->
               Continue(r, "done", setUploadError(uploaderState, "upload"))
          [] outcome = "notOk" -> Continue(r, "uploadErrorBody", uploaderState)
          [] outcome = "ok" ->
               Continue(r, "uploadBody", updateProgress(uploaderState, "uploading", 40))

\* the body of the failed upload is read (or not) and the error is thrown
UploadErrorBodySettles(r) ==
  /\ runs[r] = "uploadErrorBody"
  /\ Continue(r, "done", setUploadError(uploaderState, "upload"))

\* the body of the upload response: unreadable, without trackId, or with one
UploadBodySettles(r) ==
  /\ runs[r] = "uploadBody"
  /\ \E outcome \in {"rejected", "noTrackId", "trackId"} :
        IF outcome = "trackId"
        THEN Continue(r, "resume", updateProgress(uploaderState, "analyzing", 60))
        ELSE Continue(r, "done", setUploadError(uploaderState, "upload"))

\* analyzer.resumeAudioContext() settles
ResumeSettles(r) ==
  /\ runs[r] = "resume"
  /\ \E outcome \in {"rejected", "resolved"} :
        IF outcome = "resolved"
        THEN Continue(r, "analyze", updateProgress(uploaderState, "analyzing", 70))
        ELSE Continue(r, "done", setUploadError(uploaderState, "analysis"))

\* analyzer.analyzeFile(file) settles; a failure falls back to the basic
\* analysis, and either way the results are sent to be saved
AnalyzeSettles(r) ==
  /\ runs[r] = "analyze"
  /\ Continue(r, "save", updateProgress(uploaderState, "saving", 90))

\* the save fetch settles
SaveSettles(r) ==
  /\ runs[r] = "save"
  /\ \E outcome \in {"rejected", "notOk", "ok"} :
        CASE outcome = "rejected" ->
               Continue(r, "done", setUploadError(uploaderState, "analysis"))
          [] outcome = "notOk" -> Continue(r, "saveErrorBody", uploaderState)
          [] outcome = "ok" -> Continue(r, "saveBody", uploaderState)

SaveErrorBodySettles(r) ==
  /\ runs[r] = "saveErrorBody"
  /\ Continue(r, "done", setUploadError(uploaderState, "analysis"))

\* the body of the save response: read, then the success display and the
\* timeout; or unreadable
SaveBodySettles(r) ==
  /\ runs[r] = "saveBody"
  /\ \E outcome \in {"rejected", "resolved"} :
        IF outcome = "resolved"
        THEN Continue(r, "timer", updateProgress(uploaderState, "complete", 100))
        ELSE Continue(r, "done", setUploadError(uploaderState, "analysis"))

\* the timeout of run r fires: clearState() and onTrackUploaded(track)
TimerFires(r) ==
  /\ runs[r] = "timer"
  /\ runs' = [runs EXCEPT ![r] = "done"]
  /\ SetState(clearState(uploaderState))
  /\ uploaded' = Append(uploaded, r)
  /\ UNCHANGED <<dragActive, dialogOpen>>
  /\ UNCHANGED <<engineVars, routeVars>>

\* a step of processFile after an await, or of its timeout
RunStep ==
  \E r \in 1..Len(runs) :
     \/ UploadSettles(r)
     \/ UploadErrorBodySettles(r)
     \/ UploadBodySettles(r)
     \/ ResumeSettles(r)
     \/ AnalyzeSettles(r)
     \/ SaveSettles(r)
     \/ SaveErrorBodySettles(r)
     \/ SaveBodySettles(r)
     \/ TimerFires(r)

InitUploader ==
  /\ NoUpload
  /\ track1 = Track(Absent, Absent, Absent, Absent, Absent, Absent)
  /\ track2 = track1
  /\ candidateTracks = << >>
  /\ limit = Absent
  /\ InitResults
  /\ NoRoute

NextUploader ==
  \/ HandleClick
  \/ HandleChange
  \/ HandleDragEnter
  \/ HandleDragLeave
  \/ HandleDrop
  \/ ClearError
  \/ RunStep

SpecUploader == InitUploader /\ [][NextUploader]_vars

\* every pending promise settles and every pending timeout fires
SpecUploaderFair == SpecUploader /\ WF_vars(RunStep)

(***************************************************************************)
(* Properties                                                              *)
(***************************************************************************)
Compared == "calculateCompatibility" \in called

Analyzed == "analyzeTransition" \in called

Searched == "findCompatibleTracks" \in called

\* the score the circle-of-fifths rule gives a distance
ScoreAtDistance(distance) ==
  IF distance = 0 THEN I(1)
  ELSE IF distance = 1 THEN Num(4, 5)
  ELSE IF distance = 2 THEN Num(3, 5)
  ELSE IF distance = 3 THEN Num(2, 5)
  ELSE Num(1, 5)

\* the distance between two positions of a circle of 12
CircularDistance(p, q) == IMin((p - q) % 12, (q - p) % 12)

\* C1: every field of the CompatibilityScore returned by
\* calculateCompatibility (overall, tempo, key, energy, spectral, rhythm)
\* lies in [0,1], for every pair of tracks the data model allows.
C1_CompatibilityScoreInUnitInterval ==
  Compared =>
    /\ InUnit(score.overall)
    /\ InUnit(score.tempo)
    /\ InUnit(score.key)
    /\ InUnit(score.energy)
    /\ InUnit(score.spectral)
    /\ InUnit(score.rhythm)

\* C2: the analysis returned by analyzeTransition has beatAlignmentScore,
\* energyMatchScore, keyCompatibilityScore and confidence in [0,1], and every
\* point of optimalPoints has score and confidence in [0,1].
C2_TransitionScoresInUnitInterval ==
  Analyzed =>
    /\ InUnit(analysis.beatAlignmentScore)
    /\ InUnit(analysis.energyMatchScore)
    /\ InUnit(analysis.keyCompatibilityScore)
    /\ InUnit(analysis.confidence)
    /\ \A i \in 1..Len(analysis.optimalPoints) :
         /\ InUnit(analysis.optimalPoints[i].score)
         /\ InUnit(analysis.optimalPoints[i].confidence)

\* C3: optimalPoints is sorted non-increasing by score, has at most 5
\* entries, and has no two distinct points that are less than 2 s apart on
\* fromTrackTime and less than 2 s apart on toTrackTime.
C3_OptimalPointsSortedCappedDistinct ==
  Analyzed =>
    LET points == analysis.optimalPoints
    IN  /\ Len(points) <= 5
        /\ \A i, j \in 1..Len(points) :
             i < j =>
               /\ Ge(points[i].score, points[j].score)
               /\ ~ ( /\ Lt(MathAbs(Sub(points[i].fromTrackTime,
                                        points[j].fromTrackTime)), I(2))
                      /\ Lt(MathAbs(Sub(points[i].toTrackTime,
                                        points[j].toTrackTime)), I(2)) )

\* C3 witness: five points of different scores are returned, a structural
\* point among them, although the three generators proposed more points than
\* survived deduplication and more than five survived.
C3_Witness ==
  /\ Analyzed
  /\ Len(analysis.optimalPoints) = 5
  /\ analysis.optimalPoints[1].score # analysis.optimalPoints[5].score
  /\ \E i \in 1..5 : analysis.optimalPoints[i].type # "beatmatch"
  /\ LET beat == analyzeBeatAlignment(track1, track2).points
         phrase == detectPhraseTransitions(track1, track2)
         structural == findStructuralTransitions(track1, track2)
         combined == combineTransitionPoints(beat, phrase, structural)
     IN  /\ Len(combined) > 5
         /\ Len(combined) < Len(beat) + Len(phrase) + Len(structural)

\* C4: findCompatibleTracks returns a list sorted non-increasing by
\* score.overall that never has more than limit entries, for every seed,
\* candidate list and integer limit.
C4_FoundSortedWithinLimit ==
  Searched =>
    /\ Len(found) <= Coalesce(limit, 10)
    /\ \A i, j \in 1..Len(found) :
         i < j => Ge(found[i].score.overall, found[j].score.overall)

Mismatched == track1.tempo = <<I(174)>> /\ track2.tempo = <<I(90)>>

\* C5 as stated: for bpmFrom = 174 and bpmTo = 90 the transitionType is
\* filter_fade or echo_out and never beatmatch.
C5_MismatchNeverBeatmatch ==
  (Analyzed /\ Mismatched) => analysis.transitionType \in {"filter_fade", "echo_out"}

\* C5 as amended: for bpmFrom = 174 and bpmTo = 90 beatAlignmentScore is 0
\* and the transitionType is echo_out when energyMatchScore < 0.3, otherwise
\* filter_fade when keyCompatibilityScore < 0.4, and otherwise beatmatch.
C5_MismatchDecidedByEnergyAndKey ==
  (Analyzed /\ Mismatched) =>
    /\ analysis.beatAlignmentScore = I(0)
    /\ analysis.transitionType =
         IF Lt(analysis.energyMatchScore, Num(3, 10)) THEN "echo_out"
         ELSE IF Lt(analysis.keyCompatibilityScore, Num(2, 5)) THEN "filter_fade"
         ELSE "beatmatch"

\* C5 witness: a 174 -> 90 transition between tracks of different key and
\* different energy that is given beatmatch.
C5_Witness ==
  /\ Analyzed
  /\ Mismatched
  /\ analysis.transitionType = "beatmatch"
  /\ analysis.energyMatchScore # I(1)
  /\ analysis.keyCompatibilityScore # I(1)

\* C6: transitionType is decided by the first matching rule: (1) triad
\* average > 0.8 gives beatmatch, (2) energyMatchScore < 0.3 gives echo_out,
\* (3) keyCompatibilityScore < 0.4 gives filter_fade, (4) beatmatch; echo_out
\* wins when rules 2 and 3 both match.
C6_FirstMatchingRuleDecides ==
  Analyzed =>
    LET triad == Div(Add(Add(analysis.beatAlignmentScore, analysis.energyMatchScore),
                         analysis.keyCompatibilityScore), I(3))
        rule1 == Gt(triad, Num(4, 5))
        rule2 == Lt(analysis.energyMatchScore, Num(3, 10))
        rule3 == Lt(analysis.keyCompatibilityScore, Num(2, 5))
    IN  /\ rule1 => analysis.transitionType = "beatmatch"
        /\ (~rule1 /\ rule2) => analysis.transitionType = "echo_out"
        /\ (~rule1 /\ ~rule2 /\ rule3) => analysis.transitionType = "filter_fade"
        /\ (~rule1 /\ ~rule2 /\ ~rule3) => analysis.transitionType = "beatmatch"

\* C6 witness: rules 2 and 3 both match and echo_out is returned.
C6_Witness ==
  /\ Analyzed
  /\ Lt(analysis.energyMatchScore, Num(3, 10))
  /\ Lt(analysis.keyCompatibilityScore, Num(2, 5))
  /\ analysis.transitionType = "echo_out"

\* C7: comparing a track with itself gives tempo, key, energy and rhythm of
\* 1.0 and overall 1.0, for every track the data model allows.
C7_SelfCompatibilityIsOne ==
  (Compared /\ track1 = track2) =>
    /\ score.tempo = I(1)
    /\ score.key = I(1)
    /\ score.energy = I(1)
    /\ score.rhythm = I(1)
    /\ score.overall = I(1)

\* C8: calculateCompatibility(a, b) and calculateCompatibility(b, a) agree
\* on tempo, key, energy and rhythm.
C8_SubScoresSymmetric ==
  Compared =>
    LET swapped == calculateCompatibility(track2, track1)
    IN  /\ score.tempo = swapped.tempo
        /\ score.key = swapped.key
        /\ score.energy = swapped.energy
        /\ score.rhythm = swapped.rhythm

\* C8 witness: two tracks of different tempo, key and energy were compared
\* and none of the four sub-scores is 1.
C8_Witness ==
  /\ Compared
  /\ track1.tempo # track2.tempo
  /\ track1.musicalKey # track2.musicalKey
  /\ track1.energyLevel # track2.energyLevel
  /\ Lt(score.tempo, I(1))
  /\ Lt(score.key, I(1))
  /\ Lt(score.energy, I(1))
  /\ Lt(I(0), score.rhythm)
  /\ Lt(score.rhythm, I(1))

\* C9: for every pair of keys of the 24-entry table both key scorers score
\* the circular distance between (p1 mod 12) and (p2 mod 12): 1.0 at distance
\* 0, 0.8 at 1, 0.6 at 2, 0.4 at 3 and 0.2 beyond.
C9_KeyDistanceIsCircular ==
  LET p1 == TableLookup(circleOfFifths, Coalesce(track1.musicalKey, ""), 1)
      p2 == TableLookup(circleOfFifths, Coalesce(track2.musicalKey, ""), 1)
      expected == ScoreAtDistance(CircularDistance(p1 % 12, p2 % 12))
  IN  (p1 >= 0 /\ p2 >= 0) =>
        /\ Compared => score.key = expected
        /\ Analyzed => analysis.keyCompatibilityScore = expected

ScoreGrid == { Num(i, 4) : i \in 0..4 }

\* C10: recommendedLength is strictly positive for every input pair, equals
\* round((60/bpmFrom*16) * (0.5 + (beatAlignmentScore + energyMatchScore)/2))
\* with bpmFrom defaulting to 120, and for a fixed outgoing tempo never
\* decreases when beatAlignmentScore + energyMatchScore increases.
C10_RecommendedLengthPositiveMonotone ==
  Analyzed =>
    LET bpmFrom == Coalesce(track1.tempo, I(120))
        beat == analysis.beatAlignmentScore
        energy == analysis.energyMatchScore
    IN  /\ Gt(analysis.recommendedLength, I(0))
        /\ analysis.recommendedLength =
             MathRound(Mul(Mul(Div(I(60), bpmFrom), I(16)),
                           Add(Num(1, 2), Div(Add(beat, energy), I(2)))))
        /\ \A b2 \in ScoreGrid, e2 \in ScoreGrid :
             Le(Add(beat, energy), Add(b2, e2)) =>
               Le(analysis.recommendedLength,
                  calculateTransitionLength(b2, e2, bpmFrom))

Formatted == "generateMixingInstructions" \in called

\* a track whose beatPositions and structureSegments are both empty (or absent)
NothingToAlign(track) ==
  /\ Len(Coalesce(track.beatPositions, << >>)) = 0
  /\ Len(Coalesce(track.structureSegments, << >>)) = 0

\* C11: when both tracks have empty beatPositions and empty
\* structureSegments, analyzeTransition returns empty optimalPoints; and
\* whenever optimalPoints is empty, generateMixingInstructions returns exactly
\* one line, the 'no optimal transition points found' fallback.
C11_NoPointsGivesFallbackLine ==
  /\ (Analyzed /\ NothingToAlign(track1) /\ NothingToAlign(track2))
       => Len(analysis.optimalPoints) = 0
  /\ (Formatted /\ Len(analysis.optimalPoints) = 0)
       => instructions = <<NoPointsLine>>

\* C11 witness: the formatter has run on the analysis of two tracks whose
\* beat and segment arrays are present and empty.
C11_Witness ==
  /\ Formatted
  /\ track1.beatPositions = << << >> >>
  /\ track1.structureSegments = << << >> >>
  /\ track2.beatPositions = << << >> >>
  /\ track2.structureSegments = << << >> >>
  /\ Len(instructions) = 1

\* the track with the documented default in place of every absent field
WithDefaults(track) ==
  Track(<<Coalesce(track.tempo, I(120))>>,
        <<Coalesce(track.musicalKey, "C")>>,
        <<Coalesce(track.energyLevel, Num(1, 2))>>,
        <<Coalesce(track.spectralCentroid, I(0))>>,
        <<Coalesce(track.beatPositions, << >>)>>,
        <<Coalesce(track.structureSegments, << >>)>>)

\* C12: for any subset of tempo, musicalKey, energyLevel, spectralCentroid,
\* beatPositions and structureSegments absent on either track,
\* calculateCompatibility and analyzeTransition return a result, and it is
\* the result for the tracks with the defaults 120, 'C', 0.5, 0, [] and []
\* put in place of the absent fields.
C12_AbsentFieldsReadAsDefaults ==
  /\ Compared =>
       score = calculateCompatibility(WithDefaults(track1), WithDefaults(track2))
  /\ Analyzed =>
       analysis = analyzeTransition(WithDefaults(track1), WithDefaults(track2))

\* C12 witness: both methods have run on a track with all six fields absent
\* and a track with all six present and different from the defaults.
C12_Witness ==
  /\ Compared
  /\ Analyzed
  /\ track1 = Track(Absent, Absent, Absent, Absent, Absent, Absent)
  /\ track2 = WithDefaults(track2)
  /\ track2 # WithDefaults(track1)
  /\ Len(track2.beatPositions[1]) > 0
  /\ Len(track2.structureSegments[1]) > 0

\* the candidates in the order they are proposed: the beat-alignment points,
\* then the phrase points, then the structural points
Candidates ==
  LET beat == analyzeBeatAlignment(track1, track2).points
  IN  [i \in 1..Len(beat) |->
         [fromTrackTime |-> beat[i].fromTime, toTrackTime |-> beat[i].toTime,
          score |-> beat[i].strength, type |-> "beatmatch",
          length |-> calculateOptimalLength(beat[i].fromTime),
          confidence |-> beat[i].strength]]
      \o detectPhraseTransitions(track1, track2)
      \o findStructuralTransitions(track1, track2)

\* two points less than 2 s apart on both time axes
Close(p, q) ==
  /\ Lt(MathAbs(Sub(p.fromTrackTime, q.fromTrackTime)), I(2))
  /\ Lt(MathAbs(Sub(p.toTrackTime, q.toTrackTime)), I(2))

\* the indices among the first n candidates that survive when a candidate is
\* discarded exactly if an earlier survivor is close to it
RECURSIVE Survivors(_, _)
Survivors(points, n) ==
  IF n = 0 THEN {}
  ELSE LET earlier == Survivors(points, n - 1)
       IN  IF \E j \in earlier : Close(points[j], points[n]) THEN earlier
           ELSE earlier \cup {n}

\* the elements of points at the indices kept, in the order of points
Kept(points, kept) ==
  [i \in 1..Cardinality(kept) |->
     points[CHOOSE j \in kept : Cardinality({m \in kept : m < j}) = i - 1]]

\* C13: deduplication is first-seen-wins over the beat-alignment points, then
\* the phrase points, then the structural points: a candidate is discarded
\* exactly when an earlier surviving candidate is within 2.0 s of it on both
\* fromTrackTime and toTrackTime, whatever the two scores are, and the sort by
\* score is applied to the survivors only.
C13_FirstSeenWinsThenSort ==
  Analyzed =>
    LET points == Candidates
        survivors == Kept(points, Survivors(points, Len(points)))
    IN  analysis.optimalPoints = ArraySlice(SortByScore(survivors), 0, 5)

\* C13 witness: a candidate was discarded for an earlier one of lower score,
\* and the earlier one is returned while the discarded one is not.
C13_Witness ==
  /\ Analyzed
  /\ LET points == Candidates
         kept == Survivors(points, Len(points))
     IN  \E i \in 1..Len(points) : \E j \in kept :
            /\ i \notin kept
            /\ j < i
            /\ Close(points[j], points[i])
            /\ Gt(points[i].score, points[j].score)
            /\ \E k \in 1..Len(analysis.optimalPoints) :
                  analysis.optimalPoints[k] = points[j]
            /\ \A k \in 1..Len(analysis.optimalPoints) :
                  analysis.optimalPoints[k] # points[i]

\* C14: for non-empty optimalPoints the last line of the instructions carries
\* the label High when confidence >= 0.8, Medium when 0.5 <= confidence < 0.8
\* and Low otherwise, the boundary values 0.8 and 0.5 included.
C14_ConfidenceLabelAtThresholds ==
  (Formatted /\ Len(analysis.optimalPoints) > 0) =>
    LET last == instructions[Len(instructions)]
    IN  /\ last.heading = "Confidence"
        /\ last.label = IF Ge(analysis.confidence, Num(4, 5)) THEN "High"
                        ELSE IF Ge(analysis.confidence, Num(1, 2)) THEN "Medium"
                        ELSE "Low"

\* the orders of the candidate indices 1..n
Orders(n) == { order \in [1..n -> 1..n] : \A i, j \in 1..n : i # j => order[i] # order[j] }

\* C15: findCompatibleTracks returns exactly the first limit entries of the
\* candidates, each paired with calculateCompatibility(seed, candidate),
\* stable-sorted descending by score.overall: every returned track is a
\* candidate, no candidate is returned twice, and candidates of equal overall
\* keep their input order.
C15_FoundIsPrefixOfStableSort ==
  Searched =>
    LET n == Len(candidateTracks)
        wanted == Coalesce(limit, 10)
        overall(i) == calculateCompatibility(track1, candidateTracks[i]).overall
    IN  /\ Len(found) = IF wanted < 0 THEN 0 ELSE IMin(wanted, n)
        /\ \E order \in Orders(n) :
             /\ \A i, j \in 1..n :
                  i < j =>
                    /\ Ge(overall(order[i]), overall(order[j]))
                    /\ overall(order[i]) = overall(order[j]) => order[i] < order[j]
             /\ \A k \in 1..Len(found) :
                  /\ k <= n
                  /\ found[k].track = candidateTracks[order[k]]
                  /\ found[k].score = calculateCompatibility(track1, found[k].track)

\* C16: overall is 0.30*tempo + 0.25*key + 0.20*energy + 0.15*spectral +
\* 0.10*rhythm of the five sub-scores returned in the same CompatibilityScore,
\* and the five weights sum to 1.
C16_OverallIsWeightedSum ==
  /\ Add(Add(Add(Add(weights.tempo, weights.key), weights.energy),
             weights.spectral), weights.rhythm) = I(1)
  /\ Compared =>
       score.overall =
         Add(Add(Add(Add(Mul(Num(30, 100), score.tempo),
                         Mul(Num(25, 100), score.key)),
                     Mul(Num(20, 100), score.energy)),
                 Mul(Num(15, 100), score.spectral)),
             Mul(Num(10, 100), score.rhythm))

\* C16 witness: a score whose five sub-scores and overall are six different
\* finite numbers.
C16_Witness ==
  /\ Compared
  /\ score.overall.d # 0
  /\ Cardinality({score.overall, score.tempo, score.key, score.energy,
                  score.spectral, score.rhythm}) = 6

\* C17: for the same pair of tracks, keyCompatibilityScore of
\* analyzeTransition equals the key sub-score of calculateCompatibility and
\* energyMatchScore equals the energy sub-score, for the 24 keys of the table,
\* unknown keys and absent fields.
C17_ScorersAgreeOnKeyAndEnergy ==
  (Compared /\ Analyzed) =>
    /\ analysis.keyCompatibilityScore = score.key
    /\ analysis.energyMatchScore = score.energy

\* C17 witness: both methods have scored a minor key against an unknown key,
\* one energy level absent and the other present, with scores below 1.
C17_Witness ==
  /\ Compared
  /\ Analyzed
  /\ track1.musicalKey = <<"Em">>
  /\ track2.musicalKey = <<"Db">>
  /\ track1.energyLevel = Absent
  /\ track2.energyLevel # Absent
  /\ Lt(score.key, I(1))
  /\ Lt(score.energy, I(1))

C19_PointLengthsPositive ==
  Analyzed =>
    LET structural == findStructuralTransitions(track1, track2)
    IN  \A i \in 1..Len(analysis.optimalPoints) :
          LET point == analysis.optimalPoints[i]
          IN  /\ Gt(point.length, I(0))
              /\ IF \E j \in 1..Len(structural) : structural[j] = point
                 THEN point.length = I(16)
                 ELSE /\ point.length =
                           MathRound(Add(I(8), MathMin(I(4), Div(point.fromTrackTime,
                                                                 I(30)))))
                      /\ point.length \in {I(8), I(9), I(10), I(11), I(12)}

\* C19 witness: the points returned include one of length 8, one of length
\* 12 (fromTrackTime of 120 s or more) and a structural one of length 16.
C19_Witness ==
  /\ Analyzed
  /\ \E i, j, k \in 1..Len(analysis.optimalPoints) :
       /\ analysis.optimalPoints[i].length = I(8)
       /\ analysis.optimalPoints[j].length = I(12)
       /\ Ge(analysis.optimalPoints[j].fromTrackTime, I(120))
       /\ analysis.optimalPoints[k].length = I(16)

Generated == response # NoResult /\ response.status = 200

\* C20: a generated playlist has the seed track at position 0 and nowhere
\* else, numbers the tracks after it 1..n in non-increasing order of overall
\* compatibility with the seed, and has at most playlistLength tracks, the
\* seed included, for every requested playlistLength.
C20_PlaylistSeedFirstOrderedBounded ==
  Generated =>
    LET tracks == response.tracks
        seedFeatures ==
          convertPrismaToTrackFeatures(tracks[1].track.features[1])
        overall(i) ==
          calculateCompatibility(
            seedFeatures,
            convertPrismaToTrackFeatures(tracks[i].track.features[1])).overall
    IN  /\ tracks[1].track.id = request.seedTrackId[1]
        /\ \A i \in 1..Len(tracks) :
             /\ tracks[i].position = i - 1
             /\ i > 1 => tracks[i].track.id # request.seedTrackId[1]
        /\ \A i, j \in 2..Len(tracks) : i < j => Ge(overall(i), overall(j))
        /\ Len(tracks) <= Coalesce(request.playlistLength, 10)

\* the pairs (a, b) of indices of a strong outgoing beat and a strong incoming
\* beat before 30 s whose strength is above 0.6
StrongPairs ==
  LET fromBeats == Coalesce(track1.beatPositions, << >>)
      toBeats == Coalesce(track2.beatPositions, << >>)
      bpmA == Coalesce(track1.tempo, I(120))
      bpmB == Coalesce(track2.tempo, I(120))
      strength(a, b) ==
        Mul(Div(MathMin(bpmA, bpmB), MathMax(bpmA, bpmB)),
            AbsCosQuarterTurn(Sub(fromBeats[a], toBeats[b])))
  IN  { pair \in (1..Len(fromBeats)) \X (1..Len(toBeats)) :
          /\ (pair[1] - 1) % 4 = 0
          /\ (pair[2] - 1) % 4 = 0
          /\ Lt(toBeats[pair[2]], I(30))
          /\ Gt(strength(pair[1], pair[2]), Num(3, 5)) }

PhrasePairs(first) ==
  LET fromBeats == Coalesce(track1.beatPositions, << >>)
      toBeats == Coalesce(track2.beatPositions, << >>)
      L(n) == IF n = 1 THEN 8 ELSE IF n = 2 THEN 16 ELSE 32
  IN  { t \in (1..3) \X (first..(MaxBeats + 1)) \X (0..1) :
          /\ t[2] * L(t[1]) < Len(fromBeats)
          /\ t[3] * L(t[1]) < Len(toBeats)
          /\ Lt(toBeats[t[3] * L(t[1]) + 1], I(30)) }

\* generation order: by phrase length, then outgoing index, then incoming index
GeneratedBefore(u, t) ==
  \/ u[1] < t[1]
  \/ u[1] = t[1] /\ u[2] < t[2]
  \/ u[1] = t[1] /\ u[2] = t[2] /\ u[3] < t[3]

\* the phrase generator returns the first 5 of the given pairs in generation
\* order, each with score 0.8, type beatmatch and confidence 0.8
PhrasePointsAre(pairs) ==
  LET points == detectPhraseTransitions(track1, track2)
      fromBeats == Coalesce(track1.beatPositions, << >>)
      toBeats == Coalesce(track2.beatPositions, << >>)
      L(n) == IF n = 1 THEN 8 ELSE IF n = 2 THEN 16 ELSE 32
  IN  /\ Len(points) = IMin(5, Cardinality(pairs))
      /\ \A k \in 1..Len(points) :
           \E t \in pairs :
              /\ Cardinality({u \in pairs : GeneratedBefore(u, t)}) = k - 1
              /\ points[k].fromTrackTime = fromBeats[t[2] * L(t[1]) + 1]
              /\ points[k].toTrackTime = toBeats[t[3] * L(t[1]) + 1]
              /\ points[k].score = Num(4, 5)
              /\ points[k].type = "beatmatch"
              /\ points[k].confidence = Num(4, 5)

\* C22 as stated: for each phrase length L in {8, 16, 32} every outgoing beat
\* whose index is a multiple of L (0 included) is a fromTime and every
\* incoming beat at a multiple of L below 2 * L with toTime < 30 a toTime;
\* each pair yields a point with score 0.8, type beatmatch, confidence 0.8,
\* and the first 5 in generation order are returned.
C22_PhrasePointsFromEveryMultiple ==
  Analyzed => PhrasePointsAre(PhrasePairs(0))

\* C22 amended: as above, with the outgoing beats taken at the positive
\* multiples L, 2L, ... of the phrase length only.
C22_PhrasePointsFromPositiveMultiples ==
  Analyzed => PhrasePointsAre(PhrasePairs(1))

\* C22 witness: more than 5 phrase pairs are generated, for two phrase
\* lengths, and 5 points are returned.
C22_Witness ==
  /\ Analyzed
  /\ Cardinality(PhrasePairs(1)) > 5
  /\ \E t, u \in PhrasePairs(1) : t[1] # u[1]
  /\ Len(detectPhraseTransitions(track1, track2)) = 5

\* the preference of the table of C23 for a pair of segment types, 0 when the
\* pair is not in the table
TableValue(fromType, toType) ==
  CASE fromType = "chorus" /\ toType = "intro" -> I(1)
    [] fromType = "outro" /\ toType = "intro" -> Num(9, 10)
    [] fromType = "verse" /\ toType = "verse" -> Num(4, 5)
    [] fromType = "chorus" /\ toType = "verse" -> Num(7, 10)
    [] fromType = "bridge" /\ toType = "intro" -> Num(4, 5)
    [] OTHER -> I(0)

\* the point C23 states for the pair of segments
StructuralPoint(fromSegment, toSegment) ==
  LET both == Mul(fromSegment.confidence, toSegment.confidence)
  IN  [fromTrackTime |-> Sub(fromSegment.end, I(8)),
       toTrackTime |-> toSegment.start,
       score |-> Mul(TableValue(fromSegment.type, toSegment.type), both),
       type |-> IF fromSegment.type = "outro" /\ toSegment.type = "intro"
                THEN "echo_out"
                ELSE IF fromSegment.type = "chorus" /\ toSegment.type = "intro"
                     THEN "filter_fade" ELSE "beatmatch",
       length |-> I(16),
       confidence |-> both]

\* the pairs <<i, j>> of segment indices that yield a point
StructuralPairs ==
  LET fromStructure == Coalesce(track1.structureSegments, << >>)
      toStructure == Coalesce(track2.structureSegments, << >>)
  IN  { pair \in (1..Len(fromStructure)) \X (1..Len(toStructure)) :
          /\ Lt(toStructure[pair[2]].start, I(60))
          /\ TableValue(fromStructure[pair[1]].type, toStructure[pair[2]].type) # I(0) }

\* C23: the structural generator yields a point for (fromSegment, toSegment)
\* exactly when toSegment.start < 60 and the pair of types is in the table
\* (chorus,intro)=1.0, (outro,intro)=0.9, (verse,verse)=0.8,
\* (chorus,verse)=0.7, (bridge,intro)=0.8; the point has score = tableValue *
\* both confidences, confidence = their product, fromTrackTime = end - 8,
\* toTrackTime = start, type echo_out / filter_fade / beatmatch; the 3
\* highest-scoring points are returned.
C23_StructuralPointsFromTable ==
  Analyzed =>
    LET points == findStructuralTransitions(track1, track2)
        fromStructure == Coalesce(track1.structureSegments, << >>)
        toStructure == Coalesce(track2.structureSegments, << >>)
        pairs == StructuralPairs
        pointOf(pair) == StructuralPoint(fromStructure[pair[1]], toStructure[pair[2]])
    IN  /\ Len(points) = IMin(3, Cardinality(pairs))
        /\ \A k \in 1..Len(points) : \E pair \in pairs : points[k] = pointOf(pair)
        /\ \A pair \in pairs :
             \/ \E k \in 1..Len(points) : points[k] = pointOf(pair)
             \/ \A k \in 1..Len(points) : Ge(points[k].score, pointOf(pair).score)
        /\ \A i, j \in 1..Len(points) :
             i < j => Ge(points[i].score, points[j].score)

\* C23 witness: four pairs yield a point, one of them from a bridge, three
\* are returned and the best of them is the best point of the analysis.
C23_Witness ==
  /\ Analyzed
  /\ Cardinality(StructuralPairs) = 4
  /\ \E pair \in StructuralPairs : track1.structureSegments[1][pair[1]].type = "bridge"
  /\ LET points == findStructuralTransitions(track1, track2)
     IN  /\ Len(points) = 3
         /\ Gt(points[1].score, points[3].score)
         /\ analysis.optimalPoints[1] = points[1]

\* the three transition types analyzeTransition can produce
ProducedTypes == {"beatmatch", "echo_out", "filter_fade"}

\* C24: analyzeTransition never produces quick_cut: transitionType and the
\* type of every point of optimalPoints are beatmatch, echo_out or
\* filter_fade, the echo_out and filter_fade points are points of the
\* structural generator, and the instructions generated for the analysis
\* carry no quick-cut directive.
C24_QuickCutNeverProduced ==
  Analyzed =>
    LET structural == findStructuralTransitions(track1, track2)
    IN  /\ analysis.transitionType \in ProducedTypes
        /\ \A k \in 1..Len(analysis.optimalPoints) :
             /\ analysis.optimalPoints[k].type \in ProducedTypes
             /\ analysis.optimalPoints[k].type # "beatmatch" =>
                  \E n \in 1..Len(structural) : structural[n] = analysis.optimalPoints[k]
        /\ Formatted =>
             \A n \in 1..Len(instructions) : instructions[n].heading # "Quick Cut"

\* C24 witness: an analysis of type echo_out whose best point is a
\* filter_fade point of the structural generator, formatted with the
\* filter-fade directive, and with a structural beatmatch point beside it.
C24_Witness ==
  /\ Formatted
  /\ analysis.transitionType = "echo_out"
  /\ Len(analysis.optimalPoints) > 0
  /\ analysis.optimalPoints[1].type = "filter_fade"
  /\ \E k \in 1..Len(analysis.optimalPoints) :
       /\ analysis.optimalPoints[k].type = "beatmatch"
       /\ analysis.optimalPoints[k].length = I(16)
  /\ \E n \in 1..Len(instructions) : instructions[n].heading = "Filter Fade"

\* the values of TransitionPoint['type']
TransitionTypes == {"beatmatch", "echo_out", "filter_fade", "quick_cut"}

\* C25: the lines of generateMixingInstructions do not depend on
\* analysis.transitionType: the analysis with any other transitionType gives
\* the same lines, and the technique is that of optimalPoints[0].type, so a
\* best point of type beatmatch gives the beatmatch directive whatever the
\* transitionType.
C25_InstructionsIgnoreTransitionType ==
  Formatted =>
    /\ \A type \in TransitionTypes :
         generateMixingInstructions([analysis EXCEPT !.transitionType = type],
                                    track1, track2) = instructions
    /\ Len(analysis.optimalPoints) > 0 =>
         /\ analysis.optimalPoints[1].type = "beatmatch" <=>
              \E n \in 1..Len(instructions) : instructions[n].heading = "Beatmatch Transition"
         /\ analysis.optimalPoints[1].type = "echo_out" <=>
              \E n \in 1..Len(instructions) : instructions[n].heading = "Echo Out"
         /\ analysis.optimalPoints[1].type = "filter_fade" <=>
              \E n \in 1..Len(instructions) : instructions[n].heading = "Filter Fade"

\* C25 witness: an analysis of type echo_out whose best point is a beat
\* point, formatted with the beatmatch directive.
C25_Witness ==
  /\ Formatted
  /\ analysis.transitionType = "echo_out"
  /\ Len(analysis.optimalPoints) > 0
  /\ analysis.optimalPoints[1].type = "beatmatch"
  /\ analysis.optimalPoints[1].length # I(16)
  /\ \E n \in 1..Len(instructions) : instructions[n].heading = "Beatmatch Transition"

\* beat times >= 0 and strictly increasing, segments with 0 <= start < end
ValidTimes(track) ==
  LET beats == Coalesce(track.beatPositions, << >>)
      segments == Coalesce(track.structureSegments, << >>)
  IN  /\ \A i \in 1..Len(beats) : Ge(beats[i], I(0))
      /\ \A i \in 1..(Len(beats) - 1) : Lt(beats[i], beats[i + 1])
      /\ \A i \in 1..Len(segments) :
           Ge(segments[i].start, I(0)) /\ Lt(segments[i].start, segments[i].end)

\* C26: for valid inputs every point of optimalPoints has fromTrackTime >= 0
\* and toTrackTime >= 0, so the cue-point line of generateMixingInstructions
\* formats no negative time.
C26_PointTimesNonNegative ==
  (Analyzed /\ ValidTimes(track1) /\ ValidTimes(track2)) =>
    /\ \A k \in 1..Len(analysis.optimalPoints) :
         /\ Ge(analysis.optimalPoints[k].fromTrackTime, I(0))
         /\ Ge(analysis.optimalPoints[k].toTrackTime, I(0))
    /\ LET lines == generateMixingInstructions(analysis, track1, track2)
       IN  \A n \in 1..Len(lines) :
             lines[n].heading = "Optimal Cue Point" =>
               \A m \in 1..Len(lines[n].numbers) : Ge(lines[n].numbers[m], I(0))

\* C27: the spectral sub-score is symmetric for non-negative centroids,
\* calculateCompatibility(a,b).spectral = calculateCompatibility(b,a).spectral,
\* it is 1.0 when both centroids are equal (both 0 or absent included), and
\* overall is symmetric too.
C27_SpectralAndOverallSymmetric ==
  Compared =>
    LET swapped == calculateCompatibility(track2, track1)
        centroid1 == Coalesce(track1.spectralCentroid, I(0))
        centroid2 == Coalesce(track2.spectralCentroid, I(0))
    IN  (Ge(centroid1, I(0)) /\ Ge(centroid2, I(0))) =>
          /\ score.spectral = swapped.spectral
          /\ centroid1 = centroid2 => score.spectral = I(1)
          /\ score.overall = swapped.overall

\* C27 witness: two tracks that differ in every scalar feature, the first
\* with the smaller centroid, compared with a spectral score between 0 and 1.
C27_Witness ==
  /\ Compared
  /\ track1.spectralCentroid = <<I(1000)>>
  /\ track2.spectralCentroid = <<I(3000)>>
  /\ score.spectral = Num(1, 3)
  /\ track1.tempo # track2.tempo
  /\ track1.musicalKey # track2.musicalKey
  /\ track1.energyLevel # track2.energyLevel
  /\ InUnit(score.overall)

\* each major key with its parallel minor
ParallelKeys ==
  { <<"C", "Cm">>, <<"G", "Gm">>, <<"D", "Dm">>, <<"A", "Am">>, <<"E", "Em">>,
    <<"B", "Bm">>, <<"F#", "F#m">>, <<"C#", "C#m">>, <<"G#", "G#m">>,
    <<"D#", "D#m">>, <<"A#", "A#m">>, <<"F", "Fm">> }

\* the 24 keys of the table
TableKeys == { pair[1] : pair \in ParallelKeys } \cup { pair[2] : pair \in ParallelKeys }

\* the two keys are the same key or a major key and its parallel minor
SameRoot(key1, key2) ==
  key1 = key2 \/ <<key1, key2>> \in ParallelKeys \/ <<key2, key1>> \in ParallelKeys

\* C28: for keys of the 24-entry table the key score, of both scorers, is 1.0
\* exactly when the two keys are the same key or a major key and its
\* parallel minor; no other pair of table keys scores 1.0.
C28_KeyScoreOneIffSameRoot ==
  LET key1 == Coalesce(track1.musicalKey, "C")
      key2 == Coalesce(track2.musicalKey, "C")
  IN  (key1 \in TableKeys /\ key2 \in TableKeys) =>
        /\ Compared => (score.key = I(1) <=> SameRoot(key1, key2))
        /\ Analyzed => (analysis.keyCompatibilityScore = I(1) <=> SameRoot(key1, key2))

\* C28 witness: C against Cm scored 1.0 by both scorers.
C28_Witness ==
  /\ Compared
  /\ Analyzed
  /\ track1.musicalKey = <<"C">>
  /\ track2.musicalKey = <<"Cm">>
  /\ score.key = I(1)
  /\ analysis.keyCompatibilityScore = I(1)

\* the track with a key outside the table replaced by the key C
UnknownKeyAsC(track) ==
  IF Coalesce(track.musicalKey, "C") \in TableKeys THEN track
  ELSE [track EXCEPT !.musicalKey = <<"C">>]

\* C29: a musicalKey that is not one of the 24 table entries is scored, by
\* both scorers, exactly as the key C is; two unknown keys score 1.0 against
\* each other.
C29_UnknownKeyScoredAsC ==
  LET asC1 == UnknownKeyAsC(track1)
      asC2 == UnknownKeyAsC(track2)
  IN  /\ Compared =>
           /\ score.key = calculateCompatibility(asC1, asC2).key
           /\ (asC1 # track1 /\ asC2 # track2) => score.key = I(1)
      /\ Analyzed =>
           /\ analysis.keyCompatibilityScore = analyzeKeyCompatibility(asC1, asC2)
           /\ (asC1 # track1 /\ asC2 # track2) => analysis.keyCompatibilityScore = I(1)

\* the runs of processFile that are in flight: started and not yet done, the
\* pending timeout included
InFlight == { r \in 1..Len(runs) : runs[r] # "done" }

\* C30: at most one processFile run is in flight at a time, so no user event
\* starts a second run while isProcessing is true and the state updates of
\* two runs never interleave.
C30_AtMostOneRunInFlight ==
  Cardinality(InFlight) <= 1

\* when promises settle and timeouts fire, isProcessing is false again and
\* again, and every run that was started ends
IsProcessingReturnsToFalse ==
  /\ []<>(isProcessing = FALSE)
  /\ <>[](InFlight = {})

====
